---- MODULE Spec2Model ----
(***************************************************************************)
(* libtiny3d: the floating-point canvas (src/src/canvas.c) and the         *)
(* project / sort / draw pipeline of the wireframe renderer                *)
(* (src/unnamed/part_003, renderer.c).                                     *)
(*                                                                         *)
(* A C float is modelled as an exact rational <<n, d>> in lowest terms     *)
(* with d > 0, so every formula below is about the arithmetic the code     *)
(* writes down, without float rounding.                                    *)
(***************************************************************************)
EXTENDS Integers, Sequences, FiniteSets, TLC

(***************************************************************************)
(* Bounds of the model.                                                    *)
(***************************************************************************)
MaxOps == 2

MaxWidth == 4

MaxHeight == 3

(***************************************************************************)
(* Rational arithmetic standing for float arithmetic.                      *)
(***************************************************************************)
Abs(i) == IF i < 0 THEN -i ELSE i

RECURSIVE GCD(_, _)
GCD(a, b) == IF b = 0 THEN a ELSE GCD(b, a % b)

R(n, d) ==
    LET g == GCD(Abs(n), Abs(d))
        s == IF d < 0 THEN -1 ELSE 1
    IN  <<(s * n) \div g, (s * d) \div g>>

I2R(i) == <<i, 1>>

Zero == <<0, 1>>

Half == <<1, 2>>

One == <<1, 1>>

Two == <<2, 1>>

LCM(a, b) == (a \div GCD(a, b)) * b

RAdd(p, q) ==
    LET l == LCM(p[2], q[2])
    IN  R(p[1] * (l \div p[2]) + q[1] * (l \div q[2]), l)

RNeg(p) == <<-p[1], p[2]>>

RSub(p, q) == RAdd(p, RNeg(q))

RMul(p, q) ==
    LET g1 == GCD(Abs(p[1]), q[2])
        g2 == GCD(Abs(q[1]), p[2])
    IN  <<(p[1] \div g1) * (q[1] \div g2), (p[2] \div g2) * (q[2] \div g1)>>

RDiv(p, q) == RMul(p, IF q[1] < 0 THEN <<-q[2], -q[1]>> ELSE <<q[2], q[1]>>)

\* a/b < c/d for a, c >= 0 and b, d > 0, by the integer parts and then the
\* reciprocals of the fractional parts, so that no product is formed
RECURSIVE LtPos(_, _, _, _)
LtPos(a, b, c, d) ==
    IF a \div b # c \div d THEN a \div b < c \div d
    ELSE IF c % d = 0 THEN FALSE
    ELSE IF a % b = 0 THEN TRUE
    ELSE LtPos(d, c % d, b, a % b)

RLt(p, q) ==
    IF p[1] < 0 /\ q[1] < 0 THEN LtPos(-q[1], q[2], -p[1], p[2])
    ELSE IF p[1] < 0 THEN TRUE
    ELSE IF q[1] < 0 THEN FALSE
    ELSE LtPos(p[1], p[2], q[1], q[2])

RLe(p, q) == ~RLt(q, p)

RGt(p, q) == RLt(q, p)

fabsf(p) == <<Abs(p[1]), p[2]>>

fmaxf(p, q) == IF RLt(p, q) THEN q ELSE p

fminf(p, q) == IF RLt(q, p) THEN q ELSE p

\* floorf followed by the conversion to int
floorf(p) == p[1] \div p[2]

\* (int) of a non-negative float: truncation
TruncToInt(p) == IF p[1] >= 0 THEN p[1] \div p[2] ELSE -((-p[1]) \div p[2])

Clamp01(p) == fmaxf(Zero, fminf(One, p))

\* FLT_EPSILON = 2^-23
FLT_EPSILON == <<1, 8388608>>

\* a NULL pointer to a struct
Null == [null |-> TRUE]

\* a NULL pointer to an array: an array is the function from its indices
\* 0 .. n-1 to its elements, and no allocated array is empty
NullArray == << >>

(***************************************************************************)
(* canvas.c                                                                *)
(***************************************************************************)
\* canvas_create: NULL on non-positive dimensions or a failed allocation,
\* otherwise a zeroed buffer with clipping disabled.
canvas_create(width, height, structOk, pixelsOk) ==
    IF width <= 0 \/ height <= 0 THEN Null
    ELSE IF ~structOk THEN Null
    ELSE IF ~pixelsOk THEN Null
    ELSE [width |-> width, height |-> height,
          pixels |-> [i \in 0..(width * height - 1) |-> Zero],
          active_viewport_radius |-> Zero]

\* INT_MAX
IntMax == 2147483647

\* the int product a * b of two positive ints does not fit an int
int_mul_overflows(a, b) == a > 0 /\ b > 0 /\ a > IntMax \div b

\* the low 32 bits of a0 * b0 for 16-bit a0, b0, as <<high half, low half>>
limb_mul(a0, b0) ==
    CHOOSE r \in {<<(x \div 256) + (((x % 256) * 256 + y) \div 65536),
                    ((x % 256) * 256 + y) % 65536>> :
                      x \in {a0 * (b0 \div 256)}, y \in {a0 * (b0 % 256)}} : TRUE

\* a * b in 32 bits, two's complement: what the product wraps to
int_mul_wrapped(a, b) ==
    CHOOSE r \in {IF hi >= 32768 THEN (hi - 65536) * 65536 + p[2] ELSE hi * 65536 + p[2] :
                     hi \in {((((a \div 65536) * (b % 65536)) % 65536)
                              + (((a % 65536) * (b \div 65536)) % 65536)
                              + (limb_mul(a % 65536, b % 65536)[1] % 65536)) % 65536},
                     p \in {limb_mul(a % 65536, b % 65536)}} : TRUE

\* the mutant forgets free(canvas) when the pixels cannot be allocated
canvas_create_live_leak(width, height, structOk, pixelsOk) ==
    IF width <= 0 \/ height <= 0 THEN 0
    ELSE IF ~structOk THEN 0
    ELSE IF ~pixelsOk THEN 1
    ELSE 2

\* the blocks canvas_create has allocated and not freed when it returns
canvas_create_live(width, height, structOk, pixelsOk) ==
    IF width <= 0 \/ height <= 0 THEN 0
    ELSE IF ~structOk THEN 0
    ELSE IF ~pixelsOk THEN 1 - 1
    ELSE 2

\* What canvas_create can return, with the blocks left allocated.  Where
\* width * height overflows int the behaviour is undefined: the size malloc
\* and memset get is that of the wrapped product, so that the call returns
\* a canvas with the dimensions asked for and a buffer of the wrapped number
\* of floats, or NULL where malloc fails (as it may for a size of 0, and
\* does for a negative one).
canvas_create_outcomes(width, height, structOk, pixelsOk) ==
    IF int_mul_overflows(width, height) /\ structOk
    THEN {[canvas |-> Null, live |-> 0] :
              n \in {m \in {int_mul_wrapped(width, height)} : m <= 0 \/ ~pixelsOk}}
         \cup {[canvas |-> [width |-> width, height |-> height,
                            pixels |-> [i \in 0..(n - 1) |-> Zero],
                            active_viewport_radius |-> Zero],
                live |-> 2] : n \in {m \in {int_mul_wrapped(width, height)} :
                                        m >= 0 /\ pixelsOk}}
    ELSE {[canvas |-> canvas_create(width, height, structOk, pixelsOk),
           live |-> canvas_create_live(width, height, structOk, pixelsOk)]}

canvas_set_circular_viewport(canvas, radius) ==
    IF canvas # Null THEN [canvas EXCEPT !.active_viewport_radius = radius]
    ELSE canvas

\* the mutant clears the viewport with the pixels
canvas_clear_viewport(canvas, intensity) ==
    IF canvas = Null THEN canvas
    ELSE [canvas EXCEPT !.pixels = [i \in DOMAIN canvas.pixels |-> intensity],
                        !.active_viewport_radius = Zero]

canvas_clear(canvas, intensity) ==
    IF canvas = Null THEN canvas
    ELSE [canvas EXCEPT !.pixels = [i \in DOMAIN canvas.pixels |-> intensity]]

\* the mutant tests against the integer centre (width / 2 in int arithmetic)
canvas_is_pixel_in_circular_viewport_intcentre(canvas, px, py) ==
    IF canvas = Null \/ RLe(canvas.active_viewport_radius, Zero) THEN TRUE
    ELSE LET radius == canvas.active_viewport_radius
             ddx == I2R(px - (canvas.width \div 2))
             ddy == I2R(py - (canvas.height \div 2))
             dist_sq == RAdd(RMul(ddx, ddx), RMul(ddy, ddy))
         IN  RLe(dist_sq, RMul(radius, radius))

canvas_is_pixel_in_circular_viewport(canvas, px, py) ==
    IF canvas = Null \/ RLe(canvas.active_viewport_radius, Zero) THEN TRUE
    ELSE LET radius == canvas.active_viewport_radius
             center_x == RDiv(I2R(canvas.width), Two)
             center_y == RDiv(I2R(canvas.height), Two)
             ddx == RSub(I2R(px), center_x)
             ddy == RSub(I2R(py), center_y)
             dist_sq == RAdd(RMul(ddx, ddx), RMul(ddy, ddy))
         IN  RLe(dist_sq, RMul(radius, radius))

\* the 2x2 neighbourhood in the order of the loops: j (y) outer, i (x) inner
Neighbourhood == << <<0, 0>>, <<1, 0>>, <<0, 1>>, <<1, 1>> >>

\* the mutant checks only that the flat index is inside the buffer
pixel_in_bounds_flat(canvas, current_x, current_y) ==
    /\ current_y * canvas.width + current_x >= 0
    /\ current_y * canvas.width + current_x < canvas.width * canvas.height

pixel_in_bounds(canvas, current_x, current_y) ==
    /\ current_x >= 0 /\ current_x < canvas.width
    /\ current_y >= 0 /\ current_y < canvas.height

\* One iteration of the loop body of set_pixel_f: the cell, whether the body
\* reaches the buffer, the buffer index it uses and the bilinear weight.
set_pixel_f_cell(canvas, x, y, i, j) ==
    LET x_int == floorf(x)
        y_int == floorf(y)
        fx == RSub(x, I2R(x_int))
        fy == RSub(y, I2R(y_int))
        current_x == x_int + i
        current_y == y_int + j
        weight_x == IF i = 0 THEN RSub(One, fx) ELSE fx
        weight_y == IF j = 0 THEN RSub(One, fy) ELSE fy
    IN  [cx |-> current_x, cy |-> current_y,
         hit |-> /\ pixel_in_bounds(canvas, current_x, current_y)
                 /\ canvas_is_pixel_in_circular_viewport(canvas, current_x, current_y),
         pixel_index |-> current_y * canvas.width + current_x,
         weight |-> RMul(weight_x, weight_y)]

\* the mutant overwrites instead of accumulating
blend_overwrite(old, intensity, weight) == Clamp01(RMul(intensity, weight))

\* canvas->pixels[i] += intensity * weight; then the clamp to [0, 1]
blend(old, intensity, weight) == Clamp01(RAdd(old, RMul(intensity, weight)))

\* the k-th iteration of the two loops of set_pixel_f, on the buffer `pixels`
set_pixel_f_body(canvas, pixels, x, y, intensity, k) ==
    LET c == set_pixel_f_cell(canvas, x, y, Neighbourhood[k][1], Neighbourhood[k][2])
    IN  IF c.hit /\ c.pixel_index \in DOMAIN pixels
        THEN [pixels EXCEPT ![c.pixel_index] = blend(@, intensity, c.weight)]
        ELSE pixels

\* the iterations k .. 4 of the loops; the buffer an iteration leaves is
\* bound before the next one starts
RECURSIVE set_pixel_f_loop(_, _, _, _, _, _)
set_pixel_f_loop(canvas, pixels, x, y, intensity, k) ==
    IF k > Len(Neighbourhood) THEN pixels
    ELSE CHOOSE r \in {set_pixel_f_loop(canvas, next, x, y, intensity, k + 1) :
                        next \in {set_pixel_f_body(canvas, pixels, x, y, intensity, k)}} : TRUE

set_pixel_f(canvas, x, y, intensity) ==
    IF canvas = Null THEN canvas
    ELSE [canvas EXCEPT !.pixels =
            set_pixel_f_loop(canvas, canvas.pixels, x, y, Clamp01(intensity), 1)]

\* the cells whose buffer entry one set_pixel_f call reads and writes
set_pixel_f_accessed(canvas, x, y) ==
    IF canvas = Null THEN {}
    ELSE {[cx |-> c.cx, cy |-> c.cy, pixel_index |-> c.pixel_index] :
            c \in {d \in {set_pixel_f_cell(canvas, x, y, Neighbourhood[k][1],
                                           Neighbourhood[k][2]) :
                             k \in 1..Len(Neighbourhood)} : d.hit}}

\* 2^23: from here on a float has no fractional bits
FloatIntegral == 8388608

\* the spacing of the floats around a magnitude a >= 2^23: 1 below 2^24, 2
\* below 2^25, ...
RECURSIVE float_ulp(_, _)
float_ulp(a, u) ==
    IF a \div u < 2 * FloatIntegral \/ u >= 64 THEN u ELSE float_ulp(a, 2 * u)

\* round to nearest, ties to even, of a value to the multiples of u
round_half_even(p, u) ==
    CHOOSE r \in {IF RLt(rem, Half) THEN I2R(lo * u)
                  ELSE IF RGt(rem, Half) THEN I2R((lo + 1) * u)
                  ELSE IF lo % 2 = 0 THEN I2R(lo * u)
                  ELSE I2R((lo + 1) * u) :
                     lo \in {floorf(RDiv(p, I2R(u)))},
                     rem \in {RSub(RDiv(p, I2R(u)), I2R(floorf(RDiv(p, I2R(u)))))}} : TRUE

\* t += 0.5f in float: below 2^23 the sum of a float of the model and 0.5 is a
\* float; from 2^23 on it is rounded to the spacing of the floats there
float_add_half(t) ==
    CHOOSE r \in {IF RLt(fabsf(sum), I2R(FloatIntegral)) THEN sum
                  ELSE round_half_even(sum, float_ulp(TruncToInt(fabsf(sum)), 1)) :
                     sum \in {RAdd(t, Half)}} : TRUE

\* the loop over t never ends: t += 0.5f leaves some t <= half_thick as it is
RECURSIVE brush_axis_hangs(_, _)
brush_axis_hangs(t, half_thick) ==
    IF ~RLe(t, half_thick) THEN FALSE
    ELSE IF float_add_half(t) = t THEN TRUE
    ELSE brush_axis_hangs(float_add_half(t), half_thick)

\* for (float t = -half_thick; t <= half_thick; t += 0.5f): the values of t,
\* up to the one the loop stays at if it never ends
RECURSIVE brush_axis(_, _)
brush_axis(t, half_thick) ==
    IF ~RLe(t, half_thick) THEN << >>
    ELSE IF float_add_half(t) = t THEN <<t>>
    ELSE <<t>> \o brush_axis(float_add_half(t), half_thick)

\* the concatenation of a sequence of sequences
RECURSIVE SeqConcat(_)
SeqConcat(ss) == IF Len(ss) = 0 THEN << >> ELSE Head(ss) \o SeqConcat(Tail(ss))

\* the n * n offsets of two nested loops over `axis`: the outer loop runs
\* over y, the inner one over x
brush_grid(axis) ==
    [k \in 1..(Len(axis) * Len(axis)) |->
        <<axis[((k - 1) % Len(axis)) + 1], axis[((k - 1) \div Len(axis)) + 1]>>]

in_disc(o, half_thick) ==
    RLe(RAdd(RMul(o[1], o[1]), RMul(o[2], o[2])), RMul(half_thick, half_thick))

\* the mutant stamps the disc the zero-step branch stamps
brush_walk_disc(half_thick) ==
    SelectSeq(brush_grid(brush_axis(RNeg(half_thick), half_thick)),
              LAMBDA o : in_disc(o, half_thick))

\* the brush of the DDA walk: every offset of the grid, brush_y outer and
\* brush_x inner (the circular condition is commented out in the source)
brush_walk(half_thick) == brush_grid(brush_axis(RNeg(half_thick), half_thick))

\* the brush of the zero-step branch: the offsets with tx*tx + ty*ty <= half_thick^2
\* (where the loop over tx stays at its first value, tx = ty = -half_thick
\* and half_thick > 0, which is outside the disc)
brush_point(half_thick) ==
    IF RGt(half_thick, Zero) /\ float_add_half(RNeg(half_thick)) = RNeg(half_thick)
    THEN << >>
    ELSE SelectSeq(brush_grid(brush_axis(RNeg(half_thick), half_thick)),
                   LAMBDA o : in_disc(o, half_thick))

draw_line_f_steps(x0, y0, x1, y1) ==
    LET dx == RSub(x1, x0)
        dy == RSub(y1, y0)
    IN  IF RGt(fabsf(dx), fabsf(dy)) THEN TruncToInt(fabsf(dx)) ELSE TruncToInt(fabsf(dy))

RECURSIVE dda_walk(_, _, _, _, _, _, _)
dda_walk(x, y, x_increment, y_increment, i, steps, brush) ==
    IF i > steps THEN << >>
    ELSE <<[x |-> x, y |-> y, brush |-> brush]>>
         \o dda_walk(RAdd(x, x_increment), RAdd(y, y_increment),
                     x_increment, y_increment, i + 1, steps, brush)

\* the mutant takes only an intensity of zero for negligible
intensity_is_negligible_zero(clamped_intensity) == RLe(clamped_intensity, Zero)

\* if (clamped_intensity < FLT_EPSILON) return;
intensity_is_negligible(clamped_intensity) == RLt(clamped_intensity, FLT_EPSILON)

\* half_thick of the branch draw_line_f takes
draw_line_f_half_thick(x0, y0, x1, y1, thickness) ==
    IF draw_line_f_steps(x0, y0, x1, y1) = 0 THEN RDiv(thickness, Two)
    ELSE fmaxf(Half, RDiv(thickness, Two))

\* draw_line_f never returns: it gets to a brush loop that never ends
draw_line_f_hangs(x0, y0, x1, y1, thickness, line_intensity) ==
    /\ ~intensity_is_negligible(Clamp01(line_intensity))
    /\ \E half_thick \in {draw_line_f_half_thick(x0, y0, x1, y1, thickness)} :
          brush_axis_hangs(RNeg(half_thick), half_thick)

\* The sample points draw_line_f visits, in order, each with the brush
\* offsets for which it calls set_pixel_f; << >> when it returns early.  A
\* call that never returns stays at its first sample.
draw_line_f_samples(x0, y0, x1, y1, thickness, line_intensity) ==
    LET clamped_intensity == Clamp01(line_intensity)
        dx == RSub(x1, x0)
        dy == RSub(y1, y0)
        steps == draw_line_f_steps(x0, y0, x1, y1)
    IN  IF intensity_is_negligible(clamped_intensity) THEN << >>
        ELSE IF steps = 0
             THEN <<[x |-> x0, y |-> y0, brush |-> brush_point(RDiv(thickness, Two))]>>
             ELSE dda_walk(x0, y0, RDiv(dx, I2R(steps)), RDiv(dy, I2R(steps)), 0,
                           IF draw_line_f_hangs(x0, y0, x1, y1, thickness, line_intensity)
                           THEN 0 ELSE steps,
                           brush_walk(fmaxf(Half, RDiv(thickness, Two))))

\* the set_pixel_f calls of a list of samples, in order: <<x, y>> of each
splat_points(samples) ==
    SeqConcat([s \in 1..Len(samples) |->
        [b \in 1..Len(samples[s].brush) |->
            <<RAdd(samples[s].x, samples[s].brush[b][1]),
              RAdd(samples[s].y, samples[s].brush[b][2])>>]])

\* set_pixel_f at points[lo] .. points[hi], in order.  The range is halved
\* and the canvas after the first half is bound before the second half
\* starts, so the evaluation nests no deeper than the logarithm of its length.
RECURSIVE splat_all(_, _, _, _, _)
splat_all(canvas, points, intensity, lo, hi) ==
    IF lo > hi THEN canvas
    ELSE IF lo = hi THEN set_pixel_f(canvas, points[lo][1], points[lo][2], intensity)
    ELSE CHOOSE r \in {splat_all(c, points, intensity, ((lo + hi) \div 2) + 1, hi) :
                        c \in {splat_all(canvas, points, intensity, lo, (lo + hi) \div 2)}} : TRUE

draw_line_f(canvas, x0, y0, x1, y1, thickness, line_intensity) ==
    IF canvas = Null THEN canvas
    ELSE LET points == splat_points(draw_line_f_samples(x0, y0, x1, y1, thickness,
                                                        line_intensity))
         IN  splat_all(canvas, points, Clamp01(line_intensity), 1, Len(points))

\* the cells the set_pixel_f calls at `points` read and write
splat_accessed(canvas, points) ==
    UNION {set_pixel_f_accessed(canvas, points[k][1], points[k][2]) : k \in 1..Len(points)}

\* "%d" of a non-negative int: its decimal digits, as bytes
RECURSIVE fprintf_d(_)
fprintf_d(n) ==
    IF n < 10 THEN <<48 + n>> ELSE fprintf_d(n \div 10) \o <<48 + (n % 10)>>

\* fprintf(fp, "P5\n%d %d\n255\n", canvas->width, canvas->height)
pgm_header(width, height) ==
    <<80, 53, 10>> \o fprintf_d(width) \o <<32>> \o fprintf_d(height)
        \o <<10, 50, 53, 53, 10>>

\* the mutant scales without clamping first
pgm_byte_unclamped(intensity) == TruncToInt(RMul(intensity, I2R(255))) % 256

\* (unsigned char)(fmaxf(0.0f, fminf(1.0f, intensity)) * 255.0f)
pgm_byte(intensity) == TruncToInt(RMul(fmaxf(Zero, fminf(One, intensity)), I2R(255)))

\* the two nested loops over y and x: one byte for each pixel
pgm_data(canvas) ==
    [k \in 1..(canvas.width * canvas.height) |->
        pgm_byte(canvas.pixels[((k - 1) \div canvas.width) * canvas.width
                               + ((k - 1) % canvas.width)])]

\* canvas_save_to_pgm: what it returns and the bytes of the file it wrote,
\* NullArray when it wrote no file; fopen may fail
canvas_save_to_pgm(canvas, filename, fopenOk) ==
    IF canvas = Null THEN [ret |-> -1, file |-> NullArray]
    ELSE IF canvas.pixels = NullArray THEN [ret |-> -1, file |-> NullArray]
    ELSE IF filename = Null THEN [ret |-> -1, file |-> NullArray]
    ELSE IF ~fopenOk THEN [ret |-> -1, file |-> NullArray]
    ELSE [ret |-> 0, file |-> pgm_header(canvas.width, canvas.height) \o pgm_data(canvas)]

(***************************************************************************)
(* math3d.c: vectors as [x, y, z], matrices as m[0..15], column-major.     *)
(***************************************************************************)
vec3_create_cartesian(x, y, z) == [x |-> x, y |-> y, z |-> z]

mat4_identity ==
    [k \in 0..15 |-> IF k \in {0, 5, 10, 15} THEN One ELSE Zero]

mat4_translate(tx, ty, tz) ==
    [mat4_identity EXCEPT ![12] = tx, ![13] = ty, ![14] = tz]

mat4_scale(sx, sy, sz) ==
    [mat4_identity EXCEPT ![0] = sx, ![5] = sy, ![10] = sz]

\* the four rows of mat * (x, y, z, w)
mat4_row(mat, row, x, y, z, w) ==
    RAdd(RAdd(RAdd(RMul(mat[row], x), RMul(mat[4 + row], y)), RMul(mat[8 + row], z)),
         RMul(mat[12 + row], w))

\* the mutant multiplies the other way round: b * a
mat4_multiply_swapped(a, b) ==
    [n \in 0..15 |->
        RAdd(RAdd(RAdd(RAdd(Zero, RMul(b[(n % 4)], a[(n \div 4) * 4])),
                       RMul(b[4 + (n % 4)], a[(n \div 4) * 4 + 1])),
                  RMul(b[8 + (n % 4)], a[(n \div 4) * 4 + 2])),
             RMul(b[12 + (n % 4)], a[(n \div 4) * 4 + 3]))]

\* res.m[i * 4 + j] = sum over k of a->m[k * 4 + j] * b->m[i * 4 + k], the
\* sum taken from 0 in the order k = 0, 1, 2, 3; n is i * 4 + j
mat4_multiply(a, b) ==
    [n \in 0..15 |->
        RAdd(RAdd(RAdd(RAdd(Zero, RMul(a[(n % 4)], b[(n \div 4) * 4])),
                       RMul(a[4 + (n % 4)], b[(n \div 4) * 4 + 1])),
                  RMul(a[8 + (n % 4)], b[(n \div 4) * 4 + 2])),
             RMul(a[12 + (n % 4)], b[(n \div 4) * 4 + 3]))]

\* the mutant divides whenever w is not near 0
mat4_transform_point_near_one(mat, p) ==
    CHOOSE res \in {IF RGt(fabsf(res_w), FLT_EPSILON)
                    THEN [x |-> RDiv(rx, res_w), y |-> RDiv(ry, res_w), z |-> RDiv(rz, res_w)]
                    ELSE [x |-> rx, y |-> ry, z |-> rz] :
                       rx \in {mat4_row(mat, 0, p.x, p.y, p.z, One)},
                       ry \in {mat4_row(mat, 1, p.x, p.y, p.z, One)},
                       rz \in {mat4_row(mat, 2, p.x, p.y, p.z, One)},
                       res_w \in {mat4_row(mat, 3, p.x, p.y, p.z, One)}} : TRUE

mat4_transform_point(mat, p) ==
    CHOOSE res \in {IF RGt(fabsf(res_w), FLT_EPSILON)
                       /\ RGt(fabsf(RSub(res_w, One)), FLT_EPSILON)
                    THEN [x |-> RDiv(rx, res_w), y |-> RDiv(ry, res_w), z |-> RDiv(rz, res_w)]
                    ELSE [x |-> rx, y |-> ry, z |-> rz] :
                       rx \in {mat4_row(mat, 0, p.x, p.y, p.z, One)},
                       ry \in {mat4_row(mat, 1, p.x, p.y, p.z, One)},
                       rz \in {mat4_row(mat, 2, p.x, p.y, p.z, One)},
                       res_w \in {mat4_row(mat, 3, p.x, p.y, p.z, One)}} : TRUE

\* the mutant projects z to +w
mat4_frustum_asymmetric_plus_w(l, r, b, t, n, f) ==
    [k \in 0..15 |->
        CASE k = 0 -> RDiv(RMul(Two, n), RSub(r, l))
          [] k = 5 -> RDiv(RMul(Two, n), RSub(t, b))
          [] k = 8 -> RDiv(RAdd(r, l), RSub(r, l))
          [] k = 9 -> RDiv(RAdd(t, b), RSub(t, b))
          [] k = 10 -> RNeg(RDiv(RAdd(f, n), RSub(f, n)))
          [] k = 11 -> One
          [] k = 14 -> RNeg(RDiv(RMul(RMul(Two, f), n), RSub(f, n)))
          [] OTHER -> Zero]

mat4_frustum_asymmetric(l, r, b, t, n, f) ==
    [k \in 0..15 |->
        CASE k = 0 -> RDiv(RMul(Two, n), RSub(r, l))
          [] k = 5 -> RDiv(RMul(Two, n), RSub(t, b))
          [] k = 8 -> RDiv(RAdd(r, l), RSub(r, l))
          [] k = 9 -> RDiv(RAdd(t, b), RSub(t, b))
          [] k = 10 -> RNeg(RDiv(RAdd(f, n), RSub(f, n)))
          [] k = 11 -> RNeg(One)
          [] k = 14 -> RNeg(RDiv(RMul(RMul(Two, f), n), RSub(f, n)))
          [] OTHER -> Zero]

\* An angle is the rational multiple of pi it stands for; tanf is exact on
\* the odd multiples of pi/4, the only angles the model uses.
tanf(a) ==
    CASE a = <<1, 4>> -> One
      [] a = <<3, 4>> -> RNeg(One)
      [] a = <<0, 1>> -> Zero

\* the mutant divides the top by the aspect ratio
mat4_perspective_narrow(fovy_rad, aspect, n, f) ==
    mat4_frustum_asymmetric(RNeg(RDiv(RMul(n, tanf(RDiv(fovy_rad, Two))), aspect)),
                            RDiv(RMul(n, tanf(RDiv(fovy_rad, Two))), aspect),
                            RNeg(RMul(n, tanf(RDiv(fovy_rad, Two)))),
                            RMul(n, tanf(RDiv(fovy_rad, Two))), n, f)

mat4_perspective(fovy_rad, aspect, n, f) ==
    LET tan_half_fovy == tanf(RDiv(fovy_rad, Two))
        t == RMul(n, tan_half_fovy)
        b == RNeg(t)
        r == RMul(t, aspect)
        l == RNeg(r)
    IN  mat4_frustum_asymmetric(l, r, b, t, n, f)

\* integer square root, rounded down
ISqrt(n) == CHOOSE k \in 0..n : k * k <= n /\ (k + 1) * (k + 1) > n

\* sqrtf: exact on the squares of rationals, otherwise rounded down to 1/16
sqrtf(p) ==
    LET sn == ISqrt(p[1])
        sd == ISqrt(p[2])
    IN  IF sn * sn = p[1] /\ sd * sd = p[2] THEN <<sn, sd>>
        ELSE R(ISqrt((p[1] * 256) \div p[2]), 16)

\* An angle in [0, pi] is the cosine it has: acosf(c) stands for itself.
acosf(c) == [acos |-> c]

\* atan2f(y, x), with 2 pi added if it is negative: an angle in [0, 2 pi)
\* is the direction it has, scaled to |x| + |y| = 1; atan2f(0, 0) is 0
atan2f_wrapped(y, x) ==
    IF x = Zero /\ y = Zero THEN [atan2 |-> <<Zero, One>>]
    ELSE [atan2 |-> <<RDiv(y, RAdd(fabsf(x), fabsf(y))), RDiv(x, RAdd(fabsf(x), fabsf(y)))>>]

\* 0.0f in the field theta and in the field phi
ThetaZero == acosf(One)

PhiZero == atan2f_wrapped(Zero, One)

\* sqrtf(x*x + y*y + z*z) of a vector whose largest component is s > 0,
\* computed on the vector divided by s so that no square leaves the range
vec3_length_scaled(x, y, z, s) ==
    RMul(s, sqrtf(RAdd(RAdd(RMul(RDiv(x, s), RDiv(x, s)), RMul(RDiv(y, s), RDiv(y, s))),
                       RMul(RDiv(z, s), RDiv(z, s)))))

\* sqrtf(x*x + y*y + z*z)
vec3_length(x, y, z) ==
    IF x = Zero /\ y = Zero /\ z = Zero THEN Zero
    ELSE vec3_length_scaled(x, y, z, fmaxf(fabsf(x), fmaxf(fabsf(y), fabsf(z))))

\* _vec3_update_spherical_from_cartesian: r, theta, phi from x, y, z
vec3_update_spherical_from_cartesian(v) ==
    CHOOSE res \in {[x |-> v.x, y |-> v.y, z |-> v.z, r |-> r,
                     theta |-> IF r = Zero THEN ThetaZero ELSE acosf(RDiv(v.z, r)),
                     phi |-> IF r = Zero THEN PhiZero ELSE atan2f_wrapped(v.y, v.x)] :
                       r \in {vec3_length(v.x, v.y, v.z)}} : TRUE

\* vec3_set_cartesian(&v, x, y, z): all six fields of v are written
vec3_set_cartesian(v, x, y, z) ==
    vec3_update_spherical_from_cartesian([x |-> x, y |-> y, z |-> z])

\* x, y, z after vec3_normalize, given the length it computed
vec3_normalize_cartesian(v, current_r) ==
    IF RLt(current_r, FLT_EPSILON) THEN [x |-> Zero, y |-> Zero, z |-> Zero]
    ELSE [x |-> RDiv(v.x, current_r), y |-> RDiv(v.y, current_r),
          z |-> RDiv(v.z, current_r)]

\* r, theta, phi after vec3_normalize: zeroed, or r = 1 and theta and phi
\* as they were in v
vec3_normalize_spherical(v, current_r) ==
    IF RLt(current_r, FLT_EPSILON) THEN [r |-> Zero, theta |-> ThetaZero, phi |-> PhiZero]
    ELSE [r |-> One, theta |-> v.theta, phi |-> v.phi]

\* the mutant recomputes nothing for a short vector: it leaves it as it is
vec3_normalize_keep_short(v) ==
    CHOOSE res \in {IF RLt(current_r, FLT_EPSILON) THEN v
                    ELSE IF "r" \in DOMAIN v
                    THEN vec3_normalize_cartesian(v, current_r)
                         @@ vec3_normalize_spherical(v, current_r)
                    ELSE vec3_normalize_cartesian(v, current_r) :
                       current_r \in {vec3_length(v.x, v.y, v.z)}} : TRUE

\* vec3_normalize(&v): the fields of v afterwards; a vector that is given
\* by x, y, z alone is returned so
vec3_normalize(v) ==
    CHOOSE res \in {IF "r" \in DOMAIN v
                    THEN vec3_normalize_cartesian(v, current_r)
                         @@ vec3_normalize_spherical(v, current_r)
                    ELSE vec3_normalize_cartesian(v, current_r) :
                       current_r \in {vec3_length(v.x, v.y, v.z)}} : TRUE

(***************************************************************************)
(* lighting (src/src/animation.c)                                          *)
(***************************************************************************)
vec3_dot_product(v1, v2) ==
    RAdd(RAdd(RMul(v1.x, v2.x), RMul(v1.y, v2.y)), RMul(v1.z, v2.z))

\* one coordinate of bezier_cubic: uuu*p0 + 3*uu*t*p1 + 3*u*tt*p2 + ttt*p3
bezier_sum(c0, c1, c2, c3, t, u) ==
    RAdd(RAdd(RAdd(RMul(RMul(RMul(u, u), u), c0),
                   RMul(RMul(RMul(I2R(3), RMul(u, u)), t), c1)),
              RMul(RMul(RMul(I2R(3), u), RMul(t, t)), c2)),
         RMul(RMul(RMul(t, t), t), c3))

\* bezier_cubic once t is clamped
bezier_cubic_at(p0, p1, p2, p3, t) ==
    CHOOSE res \in
        {vec3_set_cartesian(Null, bezier_sum(p0.x, p1.x, p2.x, p3.x, t, u),
                                  bezier_sum(p0.y, p1.y, p2.y, p3.y, t, u),
                                  bezier_sum(p0.z, p1.z, p2.z, p3.z, t, u)) :
            u \in {RSub(One, t)}} : TRUE

\* the mutant does not clamp t
bezier_cubic_unclamped(p0, p1, p2, p3, t) == bezier_cubic_at(p0, p1, p2, p3, t)

bezier_cubic(p0, p1, p2, p3, t) == bezier_cubic_at(p0, p1, p2, p3, Clamp01(t))

\* sinf(s * theta) / sinf(theta) for the angle theta in (0, pi) whose cosine
\* is dot: 0 and 1 for s = 0 and s = 1, and for s = 1/2 the half-angle value
\* 1 / (2 cos(theta / 2)) = 1 / sqrt(2 (1 + dot))
slerp_scale(dot, s) ==
    CASE s = Zero -> Zero
      [] s = One -> One
      [] s = Half -> RDiv(One, sqrtf(RMul(Two, RAdd(One, dot))))

\* the interpolation of vec3_slerp for vectors at an angle: the scaled sum,
\* set and normalized
vec3_slerp_formula(v_a, v_b, t, dot) ==
    CHOOSE res \in
        {vec3_normalize(vec3_set_cartesian(Null,
             RAdd(RMul(scale_a, v_a.x), RMul(scale_b, v_b.x)),
             RAdd(RMul(scale_a, v_a.y), RMul(scale_b, v_b.y)),
             RAdd(RMul(scale_a, v_a.z), RMul(scale_b, v_b.z)))) :
           scale_a \in {slerp_scale(dot, RSub(One, t))},
           scale_b \in {slerp_scale(dot, t)}} : TRUE

\* vec3_slerp after t and dot are clamped; sinf(theta) is sqrt(1 - dot^2)
vec3_slerp_clamped(v_a, v_b, t, dot) ==
    IF dot = One \/ RLt(fabsf(RSub(dot, One)), FLT_EPSILON) THEN v_a
    ELSE IF RLt(sqrtf(RSub(One, RMul(dot, dot))), FLT_EPSILON)
    THEN (IF RGt(t, Half) THEN v_b ELSE v_a)
    ELSE vec3_slerp_formula(v_a, v_b, t, dot)

\* the mutant builds the result of near-identical vectors with the setter
vec3_slerp_rebuilt(v_a, v_b, t) ==
    CHOOSE res \in
        {IF dot = One \/ RLt(fabsf(RSub(dot, One)), FLT_EPSILON)
         THEN vec3_set_cartesian(Null, v_a.x, v_a.y, v_a.z)
         ELSE vec3_slerp_clamped(v_a, v_b, Clamp01(t), dot) :
            dot \in {fmaxf(RNeg(One), fminf(One, vec3_dot_product(v_a, v_b)))}} : TRUE

vec3_slerp(v_a, v_b, t) ==
    CHOOSE res \in
        {vec3_slerp_clamped(v_a, v_b, Clamp01(t), dot) :
            dot \in {fmaxf(RNeg(One), fminf(One, vec3_dot_product(v_a, v_b)))}} : TRUE

\* the mutant leaves out the fmaxf(0, .)
calculate_lambertian_intensity_signed(surface_normal, light_direction) ==
    vec3_dot_product(surface_normal, light_direction)

calculate_lambertian_intensity(surface_normal, light_direction) ==
    fmaxf(Zero, vec3_dot_product(surface_normal, light_direction))

RECURSIVE lighting_sum(_, _, _, _)
lighting_sum(surface_normal, lights, num_lights, i) ==
    IF i >= num_lights THEN Zero
    ELSE RAdd(IF lights[i].type = "LIGHT_TYPE_DIRECTIONAL"
              THEN calculate_lambertian_intensity(surface_normal, lights[i].direction)
              ELSE Zero,
              lighting_sum(surface_normal, lights, num_lights, i + 1))

calculate_total_lighting_intensity(surface_normal, lights, num_lights) ==
    IF lights = NullArray \/ num_lights <= 0 THEN Half
    ELSE LET total_intensity == lighting_sum(surface_normal, lights, num_lights, 0)
         IN  IF RGt(total_intensity, One) THEN One
             ELSE IF RLt(total_intensity, Zero) THEN Zero
             ELSE total_intensity

(***************************************************************************)
(* renderer.c (src/unnamed/part_003)                                       *)
(***************************************************************************)
Unclipped == 0

BehindEye == 1

OutsideFrustum == 2

\* the mutant takes only a non-positive w for a vertex behind the eye
is_behind_eye_nonpositive(w_clip) == RLe(w_clip, Zero)

\* if (w_clip < FLT_EPSILON)
is_behind_eye(w_clip) == RLt(w_clip, FLT_EPSILON)

is_outside_frustum(ndc_pos) ==
    \/ RLt(ndc_pos.x, RNeg(One)) \/ RGt(ndc_pos.x, One)
    \/ RLt(ndc_pos.y, RNeg(One)) \/ RGt(ndc_pos.y, One)
    \/ RLt(ndc_pos.z, RNeg(One)) \/ RGt(ndc_pos.z, One)

\* the mutant does not flip the y axis
ndc_to_screen_noflip(ndc_pos, screen_width, screen_height) ==
    [x |-> RMul(RMul(RAdd(ndc_pos.x, One), Half), I2R(screen_width)),
     y |-> RMul(RMul(RAdd(ndc_pos.y, One), Half), I2R(screen_height))]

ndc_to_screen(ndc_pos, screen_width, screen_height) ==
    [x |-> RMul(RMul(RAdd(ndc_pos.x, One), Half), I2R(screen_width)),
     y |-> RMul(RMul(RSub(One, ndc_pos.y), Half), I2R(screen_height))]

Sentinel == <<-10000, 1>>

\* steps 1 and 2 of project_vertex: local -> world -> camera
camera_position(local_vertex, model_matrix, view_matrix) ==
    mat4_transform_point(view_matrix, mat4_transform_point(model_matrix, local_vertex))

\* step 3: the homogeneous clip position, w included
clip_position(camera_pos, projection_matrix) ==
    [x |-> mat4_row(projection_matrix, 0, camera_pos.x, camera_pos.y, camera_pos.z, One),
     y |-> mat4_row(projection_matrix, 1, camera_pos.x, camera_pos.y, camera_pos.z, One),
     z |-> mat4_row(projection_matrix, 2, camera_pos.x, camera_pos.y, camera_pos.z, One),
     w |-> mat4_row(projection_matrix, 3, camera_pos.x, camera_pos.y, camera_pos.z, One)]

\* step 4: the perspective divide of a clip position in front of the eye
perspective_divide(clip_pos_h) ==
    [x |-> RDiv(clip_pos_h.x, clip_pos_h.w),
     y |-> RDiv(clip_pos_h.y, clip_pos_h.w),
     z |-> RDiv(clip_pos_h.z, clip_pos_h.w)]

\* steps 4 to 6 for a vertex in front of the eye
project_in_front(clip_pos_h, z_cam, screen_width, screen_height) ==
    CHOOSE pv \in UNION {{[position_screen |-> [x |-> scr.x, y |-> scr.y, z |-> z_cam],
                            is_clipped |-> IF is_outside_frustum(ndc_pos) THEN OutsideFrustum
                                           ELSE Unclipped] :
                              scr \in {ndc_to_screen(ndc_pos, screen_width, screen_height)}} :
                         ndc_pos \in {perspective_divide(clip_pos_h)}} : TRUE

project_vertex(local_vertex, model_matrix, view_matrix, projection_matrix, screen_width, screen_height) ==
    CHOOSE pv \in UNION {{IF is_behind_eye(clip_pos_h.w)
                           THEN [position_screen |-> [x |-> Sentinel, y |-> Sentinel,
                                                      z |-> camera_pos.z],
                                 is_clipped |-> BehindEye]
                           ELSE project_in_front(clip_pos_h, camera_pos.z,
                                                 screen_width, screen_height) :
                              clip_pos_h \in {clip_position(camera_pos, projection_matrix)}} :
                         camera_pos \in {camera_position(local_vertex, model_matrix,
                                                         view_matrix)}} : TRUE

compare_renderable_edges(edge_a, edge_b) ==
    IF RLt(edge_a.avg_z, edge_b.avg_z) THEN 1
    ELSE IF RGt(edge_a.avg_z, edge_b.avg_z) THEN -1
    ELSE 0

\* the orders qsort may leave a list in: every arrangement of its elements
\* in which no element is followed by one the comparison puts before it
qsort_results(list) ==
    LET n == Len(list)
        perms == {f \in [1..n -> 1..n] : \A i, j \in 1..n : i # j => f[i] # f[j]}
    IN  {[k \in 1..n |-> list[f[k]]] :
            f \in {g \in perms :
                     \A i, j \in 1..n :
                        i < j => compare_renderable_edges(list[g[i]], list[g[j]]) <= 0}}

\* the mutant looks at the first endpoint only
edge_is_behind_eye_first(pv0, pv1) == pv0.is_clipped = BehindEye

\* if (pv0.is_clipped == 1 || pv1.is_clipped == 1) continue;
edge_is_behind_eye(pv0, pv1) == pv0.is_clipped = BehindEye \/ pv1.is_clipped = BehindEye

\* if (edge->v0.is_clipped == 0 && edge->v1.is_clipped == 0)
edge_is_drawn(edge) == edge.v0.is_clipped = Unclipped /\ edge.v1.is_clipped = Unclipped

\* the mutant leaves the loop at the first edge with an invalid index
RECURSIVE collect_edges_break(_, _, _)
collect_edges_break(model, projected_vertices, i) ==
    IF i >= model.num_edges THEN << >>
    ELSE IF model.edges[i * 2] < 0 \/ model.edges[i * 2] >= model.num_vertices
            \/ model.edges[i * 2 + 1] < 0 \/ model.edges[i * 2 + 1] >= model.num_vertices
    THEN << >>
    ELSE IF edge_is_behind_eye(projected_vertices[model.edges[i * 2]],
                               projected_vertices[model.edges[i * 2 + 1]])
    THEN collect_edges_break(model, projected_vertices, i + 1)
    ELSE <<[v0 |-> projected_vertices[model.edges[i * 2]],
            v1 |-> projected_vertices[model.edges[i * 2 + 1]],
            avg_z |-> RMul(RAdd(projected_vertices[model.edges[i * 2]].position_screen.z,
                                projected_vertices[model.edges[i * 2 + 1]].position_screen.z),
                           Half),
            original_edge_index |-> i]>>
         \o collect_edges_break(model, projected_vertices, i + 1)

\* the first loop over the edges: the list before the sort
RECURSIVE collect_edges(_, _, _)
collect_edges(model, projected_vertices, i) ==
    IF i >= model.num_edges THEN << >>
    ELSE LET idx0 == model.edges[i * 2]
             idx1 == model.edges[i * 2 + 1]
             rest == collect_edges(model, projected_vertices, i + 1)
         IN  IF idx0 < 0 \/ idx0 >= model.num_vertices
                \/ idx1 < 0 \/ idx1 >= model.num_vertices
             THEN rest
             ELSE LET pv0 == projected_vertices[idx0]
                      pv1 == projected_vertices[idx1]
                  IN  IF edge_is_behind_eye(pv0, pv1) THEN rest
                      ELSE <<[v0 |-> pv0, v1 |-> pv1,
                              avg_z |-> RMul(RAdd(pv0.position_screen.z,
                                                  pv1.position_screen.z), Half),
                              original_edge_index |-> i]>> \o rest

\* the indices at which the first loop reads projected_vertices, from edge i on
RECURSIVE collect_edges_reads(_, _)
collect_edges_reads(model, i) ==
    IF i >= model.num_edges THEN {}
    ELSE IF model.edges[i * 2] < 0 \/ model.edges[i * 2] >= model.num_vertices
            \/ model.edges[i * 2 + 1] < 0 \/ model.edges[i * 2 + 1] >= model.num_vertices
    THEN collect_edges_reads(model, i + 1)
    ELSE {model.edges[i * 2], model.edges[i * 2 + 1]} \cup collect_edges_reads(model, i + 1)

\* the indices at which the draw loop reads model->vertices for the lighting
draw_loop_reads(sorted, model, lights, num_lights) ==
    IF lights # NullArray /\ num_lights > 0
    THEN UNION {{model.edges[sorted[k].original_edge_index * 2],
                 model.edges[sorted[k].original_edge_index * 2 + 1]} :
                  k \in {n \in 1..Len(sorted) : edge_is_drawn(sorted[n])}}
    ELSE {}

\* the mutant does not normalize the direction of the edge
edge_line_intensity_unnormalized(edge, model, model_matrix, lights, num_lights) ==
    IF lights # NullArray /\ num_lights > 0
    THEN CHOOSE r \in
            {calculate_total_lighting_intensity(
                 [x |-> RSub(v1_world.x, v0_world.x), y |-> RSub(v1_world.y, v0_world.y),
                  z |-> RSub(v1_world.z, v0_world.z)], lights, num_lights) :
               v0_world \in {mat4_transform_point(model_matrix,
                                 model.vertices[model.edges[edge.original_edge_index * 2]])},
               v1_world \in {mat4_transform_point(model_matrix,
                                 model.vertices[model.edges[edge.original_edge_index * 2 + 1]])}} :
            TRUE
    ELSE One

\* the intensity of one edge in the draw loop
edge_line_intensity(edge, model, model_matrix, lights, num_lights) ==
    IF lights # NullArray /\ num_lights > 0
    THEN LET v0_world == mat4_transform_point(model_matrix,
                            model.vertices[model.edges[edge.original_edge_index * 2]])
             v1_world == mat4_transform_point(model_matrix,
                            model.vertices[model.edges[edge.original_edge_index * 2 + 1]])
             edge_dir_world == vec3_normalize([x |-> RSub(v1_world.x, v0_world.x),
                                               y |-> RSub(v1_world.y, v0_world.y),
                                               z |-> RSub(v1_world.z, v0_world.z)])
         IN  calculate_total_lighting_intensity(edge_dir_world, lights, num_lights)
    ELSE One

\* the draw_line_f calls of the second loop, in order
draw_calls(sorted, model, model_matrix, lights, num_lights, line_thickness) ==
    LET drawn == SelectSeq(sorted, edge_is_drawn)
    IN  [k \in 1..Len(drawn) |->
            [x0 |-> drawn[k].v0.position_screen.x, y0 |-> drawn[k].v0.position_screen.y,
             x1 |-> drawn[k].v1.position_screen.x, y1 |-> drawn[k].v1.position_screen.y,
             thickness |-> line_thickness,
             line_intensity |-> edge_line_intensity(drawn[k], model, model_matrix,
                                                    lights, num_lights),
             avg_z |-> drawn[k].avg_z,
             original_edge_index |-> drawn[k].original_edge_index]]

\* the draw_line_f calls draws[k] .. , in order; the canvas a call leaves is
\* bound before the next call starts
RECURSIVE draw_all(_, _, _)
draw_all(canvas, draws, k) ==
    IF k > Len(draws) THEN canvas
    ELSE CHOOSE r \in UNION {{draw_all(c, draws, k + 1) :
                                c \in {draw_line_f(canvas, d.x0, d.y0, d.x1, d.y1,
                                                   d.thickness, d.line_intensity)}} :
                             d \in {draws[k]}} : TRUE

\* render_wireframe up to the sort: what it returns early with, or the
\* projected vertices and the unsorted list of renderable edges
render_wireframe_prepare(canvas, model, model_matrix, view_matrix, projection_matrix, viewport_radius_param, projectedOk, edgesOk) ==
    IF \/ canvas = Null \/ model = Null
       \/ model_matrix = NullArray \/ view_matrix = NullArray
       \/ projection_matrix = NullArray
    THEN [returned |-> "invalid", canvas |-> canvas,
          projected_vertices |-> << >>, edges_to_render |-> << >>]
    ELSE IF model.vertices = NullArray \/ model.edges = NullArray
    THEN [returned |-> "invalid", canvas |-> canvas,
          projected_vertices |-> << >>, edges_to_render |-> << >>]
    ELSE IF model.num_vertices = 0 \/ model.num_edges = 0
    THEN [returned |-> "empty", canvas |-> canvas,
          projected_vertices |-> << >>, edges_to_render |-> << >>]
    ELSE CHOOSE r \in
            {IF ~projectedOk
             THEN [returned |-> "nomem", canvas |-> clipped,
                   projected_vertices |-> << >>, edges_to_render |-> << >>]
             ELSE IF ~edgesOk
             THEN [returned |-> "nomem", canvas |-> clipped,
                   projected_vertices |-> projected_vertices, edges_to_render |-> << >>]
             ELSE [returned |-> "drawn", canvas |-> clipped,
                   projected_vertices |-> projected_vertices,
                   edges_to_render |-> collect_edges(model, projected_vertices, 0)] :
                clipped \in {canvas_set_circular_viewport(canvas, viewport_radius_param)},
                projected_vertices \in
                    {[i \in 0..(model.num_vertices - 1) |->
                        project_vertex(model.vertices[i], model_matrix, view_matrix,
                                       projection_matrix, canvas.width, canvas.height)]}} : TRUE

\* render_wireframe, with the order qsort left the list in: the canvas it
\* leaves, and what it built on the way
render_wireframe(canvas, model, model_matrix, view_matrix, projection_matrix, lights, num_lights, viewport_radius_param, line_thickness, projectedOk, edgesOk, sorted) ==
    CHOOSE r \in UNION {{[canvas |-> draw_all(prep.canvas, draws, 1),
                           returned |-> prep.returned,
                           projected_vertices |-> prep.projected_vertices,
                           unsorted |-> prep.edges_to_render,
                           edges_to_render |-> sorted,
                           draws |-> draws] :
                             draws \in {IF prep.returned = "drawn"
                                        THEN draw_calls(sorted, model, model_matrix, lights,
                                                        num_lights, line_thickness)
                                        ELSE << >>}} :
                        prep \in {render_wireframe_prepare(canvas, model, model_matrix,
                                      view_matrix, projection_matrix, viewport_radius_param,
                                      projectedOk, edgesOk)}} : TRUE

(***************************************************************************)
(* obj_loader.c (src/unnamed/part_002) and the model helpers of            *)
(* renderer.c.  The text is a sequence of lines; a line is a vertex        *)
(* record with the scalars sscanf reads from it, a face record with its    *)
(* space-separated tokens, or any other line.  A token is what             *)
(* sscanf("%d") makes of it: an integer, or nothing.                       *)
(***************************************************************************)
MaxFaceVerts == 32

\* a C array: its elements at the indices 0 .. n-1
Arr(seq) == [i \in 0..(Len(seq) - 1) |-> seq[i + 1]] @@ << >>

model_create(num_vertices, num_edges, vertices, edges) ==
    IF num_vertices <= 0 \/ num_edges < 0 THEN Null
    ELSE [vertices |-> Arr(vertices), num_vertices |-> num_vertices,
          edges |-> IF num_edges > 0 THEN Arr(edges) ELSE NullArray,
          num_edges |-> num_edges]

HasInteger(token) == token.digits

\* the indices the token loop of a face line collects
face_verts_indices(tokens) ==
    CHOOSE ind \in {[i \in 1..(IF Len(read) < MaxFaceVerts THEN Len(read) ELSE MaxFaceVerts)
                        |-> read[i].value] :
                       read \in {SelectSeq(tokens, HasInteger)}} : TRUE

\* v_idx - 1 in int; at INT_MIN the subtraction overflows, and both the
\* wrapped value and a comparison simplified to v_idx < 1 reject the index
OneBased(v_idx) == IF v_idx = (-IntMax) - 1 THEN IntMax ELSE v_idx - 1

\* the mutant takes an index equal to the count for a vertex
InBoundsInclusive(idx1, idx2, count) ==
    ~(idx1 < 0 \/ idx1 > count \/ idx2 < 0 \/ idx2 > count)

InBounds(idx1, idx2, count) == ~(idx1 < 0 \/ idx1 >= count \/ idx2 < 0 \/ idx2 >= count)

\* the mutant leaves the closing edge of a face out
RECURSIVE face_edges_open(_, _, _, _)
face_edges_open(ind, i, count, da) ==
    IF i >= Len(ind) - 1 THEN da
    ELSE IF ~InBounds(OneBased(ind[i + 1]), OneBased(ind[((i + 1) % Len(ind)) + 1]), count)
    THEN face_edges_open(ind, i + 1, count, [da EXCEPT !.stderr = @ + 1])
    ELSE face_edges_open(ind, i + 1, count,
             [da EXCEPT !.edges = @ \o <<OneBased(ind[i + 1]),
                                         OneBased(ind[((i + 1) % Len(ind)) + 1])>>])

\* the edge loop of a face line: da holds vertices, edges and the count of
\* diagnostics written to stderr
RECURSIVE face_edges(_, _, _, _)
face_edges(ind, i, count, da) ==
    IF i >= Len(ind) THEN da
    ELSE IF ~InBounds(OneBased(ind[i + 1]), OneBased(ind[((i + 1) % Len(ind)) + 1]), count)
    THEN face_edges(ind, i + 1, count, [da EXCEPT !.stderr = @ + 1])
    ELSE face_edges(ind, i + 1, count,
             [da EXCEPT !.edges = @ \o <<OneBased(ind[i + 1]),
                                         OneBased(ind[((i + 1) % Len(ind)) + 1])>>])

\* one line of the text
obj_load_line(line, da) ==
    IF line.kind = "v"
    THEN (IF Len(line.scalars) >= 3
          THEN [da EXCEPT !.vertices = Append(@, vec3_create_cartesian(line.scalars[1],
                                                     line.scalars[2], line.scalars[3]))]
          ELSE da)
    ELSE IF line.kind = "f"
    THEN (IF Len(face_verts_indices(line.tokens)) >= 3
          THEN face_edges(face_verts_indices(line.tokens), 0, Len(da.vertices), da)
          ELSE da)
    ELSE da

\* the lines lo .. hi of the text, in order; the halves are read one after
\* the other
RECURSIVE obj_load_lines(_, _, _, _)
obj_load_lines(lines, lo, hi, da) ==
    IF lo > hi THEN da
    ELSE IF lo = hi THEN obj_load_line(lines[lo], da)
    ELSE CHOOSE res \in {obj_load_lines(lines, ((lo + hi) \div 2) + 1, hi, half) :
                            half \in {obj_load_lines(lines, lo, (lo + hi) \div 2, da)}} : TRUE

\* obj_load_from_string: the model it returns and what it wrote to stderr;
\* allocations tells whether the two arrays and the model can be allocated
obj_load_from_string(obj_data_string, allocations) ==
    IF obj_data_string = Null \/ ~allocations THEN [model |-> Null, stderr |-> 0]
    ELSE CHOOSE res \in
           {[model |-> model_create(Len(da.vertices), Len(da.edges) \div 2,
                                    da.vertices, da.edges),
             stderr |-> da.stderr] :
               da \in {obj_load_lines(obj_data_string.lines, 1, Len(obj_data_string.lines),
                           [vertices |-> << >>, edges |-> << >>, stderr |-> 0])}} : TRUE

(***************************************************************************)
(* The state: the one canvas of the program and, for the call that was     *)
(* made last, its arguments, the canvas it started from and what it did.   *)
(***************************************************************************)
VARIABLES canvas, log, nops

vars == <<canvas, log, nops>>

Call(op, args, before) ==
    [op |-> op, args |-> args, before |-> before,
     pv |-> Null, returned |-> "",
     projected_vertices |-> << >>, unsorted |-> << >>, edges_to_render |-> << >>,
     draws |-> << >>, samples |-> << >>, accessed |-> {}, saved |-> Null, live |-> 0,
     result |-> Null]

\* the samples of a list of draw_line_f calls, concatenated
draws_samples(draws) ==
    SeqConcat([k \in 1..Len(draws) |->
        CHOOSE s \in {draw_line_f_samples(d.x0, d.y0, d.x1, d.y1, d.thickness,
                                          d.line_intensity) : d \in {draws[k]}} : TRUE])

(***************************************************************************)
(* The inputs the operations are called with.                              *)
(***************************************************************************)
Q(n, d) == R(n, d)

TheCanvas == canvas_create(MaxWidth, MaxHeight, TRUE, TRUE)

ClearIntensities == {Zero, Q(1, 2), Two, Q(-1, 1)}

Radii == {Zero, Q(-1, 1), One, Q(3, 2)}

PixelXs == {Q(-1, 4), Q(5, 4), Q(2 * MaxWidth - 1, 2), Sentinel}

PixelYs == {Q(-1, 4), Q(7, 4), Q(MaxHeight, 1)}

PixelIntensities == {Q(-1, 1), Q(1, 4), Two}

LineStarts == {<<Q(1, 2), Q(1, 2)>>, <<Q(5, 4), One>>}

LineDeltas == {<<Zero, Zero>>, <<Q(3, 4), Q(-1, 4)>>, <<Q(5, 2), One>>, <<Q(-2, 1), Q(3, 1)>>}

Thicknesses == {Zero, Q(1, 2), One, Two, Q(-1, 1)}

\* zero, negative, half of FLT_EPSILON, FLT_EPSILON, and visible ones
LineIntensities == {Zero, Q(-1, 1), Q(1, 16777216), FLT_EPSILON, Q(1, 2), One}

\* 2^25 and 2^26: half of them is a float that t += 0.5f rounds back to
ThickThicknesses == {One, Q(3, 1), Q(33554432, 1), Q(67108864, 1)}

\* the arguments of the calls that are made in sequence
FewLineDeltas == {<<Zero, Zero>>, <<Q(5, 2), One>>}

FewThicknesses == {One, Two}

FewLineIntensities == {Q(1, 2), One}

FewRadii == {Zero, Q(3, 2)}

FewRenderThicknesses == {One}

\* a file name, or NULL
Filenames == {[name |-> "out.pgm"], Null}

\* a canvas_t whose pixels pointer is NULL
without_pixels(c) == IF c = Null THEN Null ELSE [c EXCEPT !.pixels = NullArray]

\* a canvas whose width has two digits, cleared to white
WideCanvas == canvas_clear(canvas_create(12, 1, TRUE, TRUE), One)

CreateWidths == {-1, 0, MaxWidth}

CreateHeights == {0, MaxHeight}

CreateDims == CreateWidths \X CreateHeights

\* small dimensions, and dimensions whose product does not fit an int:
\* 2^32, which wraps to 0, and 2^32 + 4, which wraps to 4
AnyDims ==
    ({-1, 0, 1, 2, MaxWidth, 12} \X {-2, 0, 1, MaxHeight, 12})
    \cup {<<65536, 65536>>, <<42949673, 100>>}

RenderRadii == {Zero, Q(3, 2), Q(-1, 1)}

RenderThicknesses == {Half, One, Two}

Succeeds == {TRUE}


V(x, y, z) == vec3_create_cartesian(x, y, z)

\* the camera of the pipeline test: three units back, 90 degrees, 4:3
ViewMatrix == mat4_translate(Zero, Zero, Q(-3, 1))

ProjectionMatrix == mat4_perspective(Q(1, 2), Q(4, 3), Q(1, 10), Q(10, 1))

\* a vertex whose clip w is positive but below FLT_EPSILON under ViewMatrix
NearlyAtEye == V(Zero, Zero, Q(3 * 16777216 - 1, 16777216))

\* a vertex whose clip w is FLT_EPSILON exactly
JustBeforeEye == V(Zero, Zero, Q(3 * 8388608 - 1, 8388608))

\* four vertices in view at three depths; two edges share their mean depth
ModelDepths ==
    [vertices |-> Arr(<<V(Q(-2, 1), One, Zero), V(Two, Q(-1, 1), Zero),
                        V(Zero, Zero, One), V(Zero, Two, Q(-1, 1))>>),
     num_vertices |-> 4,
     edges |-> Arr(<<0, 1, 2, 3, 0, 2, 1, 3>>),
     num_edges |-> 4]

\* vertices in view, beside the frustum, beyond the far plane, at and
\* behind the eye; edges between them and edges with indices out of range
ModelClipped ==
    [vertices |-> Arr(<<V(Q(-2, 1), One, Zero), V(Q(5, 1), Zero, Zero),
                        V(Zero, Zero, Q(3, 1)), NearlyAtEye,
                        V(Two, Q(-1, 1), Zero), V(Zero, Zero, Q(-8, 1)),
                        V(One, Zero, Q(4, 1))>>),
     num_vertices |-> 7,
     edges |-> Arr(<<0, 1, 0, 2, 3, 0, 0, 4, 4, 7, -1, 0, 5, 4, 4, 6, 1, 5>>),
     num_edges |-> 9]

\* the edges of ModelDepths, with edges between them whose indices are
\* the number of vertices and -1
ModelBadIndices ==
    [vertices |-> ModelDepths.vertices,
     num_vertices |-> 4,
     edges |-> Arr(<<0, 1, 4, 0, 2, 3, 0, -1, 0, 2, 1, 3>>),
     num_edges |-> 6]

\* one edge, seen from in front
ModelEdge ==
    [vertices |-> Arr(<<V(Q(-1, 1), Zero, Zero), V(Two, Zero, Zero)>>),
     num_vertices |-> 2,
     edges |-> Arr(<<0, 1>>),
     num_edges |-> 1]

\* model_create(2, 0): no edge array
ModelNoEdgeArray ==
    [vertices |-> Arr(<<V(Zero, Zero, Zero), V(One, Zero, Zero)>>),
     num_vertices |-> 2, edges |-> NullArray, num_edges |-> 0]

\* a model whose vertex array was never allocated
ModelNoVertexArray ==
    [vertices |-> NullArray, num_vertices |-> 2, edges |-> Arr(<<0, 1>>), num_edges |-> 1]

ModelNoVertices ==
    [vertices |-> Arr(<<V(Zero, Zero, Zero)>>), num_vertices |-> 0,
     edges |-> Arr(<<0, 0>>), num_edges |-> 1]

ModelNoEdges ==
    [vertices |-> Arr(<<V(Zero, Zero, Zero)>>), num_vertices |-> 1,
     edges |-> Arr(<<0, 0>>), num_edges |-> 0]

Models == {Null, ModelDepths, ModelClipped, ModelBadIndices, ModelEdge, ModelNoEdgeArray,
           ModelNoVertices, ModelNoEdges}

Directional(x, y, z) == [type |-> "LIGHT_TYPE_DIRECTIONAL", direction |-> V(x, y, z)]

NoLights == [lights |-> NullArray, num_lights |-> 0]

\* the lights argument with its count
LightSets ==
    {NoLights,
     [lights |-> Arr(<<Directional(One, Zero, Zero)>>), num_lights |-> 0],
     [lights |-> Arr(<<Directional(One, Zero, Zero)>>), num_lights |-> 1],
     [lights |-> Arr(<<Directional(Q(3, 5), Q(4, 5), Zero),
                       Directional(Zero, Zero, One)>>), num_lights |-> 2]}

\* a light of a type the loop skips
OtherLight(x, y, z) == [type |-> "LIGHT_TYPE_OTHER", direction |-> V(x, y, z)]

LightChoices ==
    {Directional(One, Zero, Zero), Directional(Q(-1, 1), Zero, Zero),
     Directional(Q(3, 5), Q(4, 5), Zero), Directional(Zero, Zero, One),
     OtherLight(One, Zero, Zero)}

\* the arrays of at most two lights
LightArrays == {Arr(seq) : seq \in UNION {[1..n -> LightChoices] : n \in 0..2}}

LightCounts == {-1, 0, 1, 2}

\* unit vectors, and one that is not normalized
LightingNormals ==
    {V(One, Zero, Zero), V(Q(-1, 1), Zero, Zero), V(Zero, One, Zero),
     V(Q(3, 5), Q(4, 5), Zero), V(Q(4, 5), Q(-3, 5), Zero), V(Zero, Zero, Q(-1, 1)),
     V(Two, Zero, Zero)}

ModelMatrices == {mat4_identity, mat4_scale(Half, Half, Half), mat4_translate(Zero, Zero, One)}

\* an affine matrix with a shear in its linear part, and a translation
AffineShear ==
    Arr(<<One, Half, Zero, Zero,
          Q(-1, 1), Two, Zero, Zero,
          Zero, One, One, Zero,
          Q(3, 1), Zero, Q(-2, 1), One>>)

TranslationMatrix == mat4_translate(Zero, Zero, Q(-5, 1))

ScaleMatrix == mat4_scale(Half, Half, Half)

\* affine matrices: the bottom row of each is (0, 0, 0, 1)
AffineMatrices ==
    {mat4_identity, TranslationMatrix, ScaleMatrix, mat4_translate(One, Two, Q(-3, 1)),
     mat4_scale(Two, Q(3, 1), Half), mat4_scale(Q(-1, 1), One, One), AffineShear,
     mat4_multiply(TranslationMatrix, AffineShear),
     mat4_multiply(mat4_scale(Two, Q(3, 1), Half), mat4_translate(One, Two, Q(-3, 1)))}

\* values of w at, next to and away from 0 and 1, signs included
HomogeneousWs ==
    {Zero, Q(1, 16777216), Q(-1, 16777216), FLT_EPSILON, Q(1, 4194304), Q(-1, 4194304),
     Half, Q(16777215, 16777216), Q(8388609, 8388608), Q(4194305, 4194304), Two,
     Q(-1, 1)}

\* matrices with a projective bottom row: w is m[15], or -z, or x + 1
ProjectiveMatrices ==
    {[AffineShear EXCEPT ![3] = Zero, ![7] = Zero, ![11] = Zero, ![15] = w] :
        w \in HomogeneousWs}
    \cup {ProjectionMatrix, [mat4_identity EXCEPT ![3] = One]}

AnyMatrices == AffineMatrices \cup ProjectiveMatrices

\* the points that are transformed
Points ==
    {V(Zero, Zero, Zero), V(One, Zero, Zero), V(One, One, Q(-1, 1)),
     V(Q(-1, 1), One, Q(-2, 1)), V(Two, Q(-1, 2), One), V(Q(-2, 1), Q(3, 1), Half)}

\* frustums l, r, b, t, n, f: the one of the pipeline test, a symmetric
\* one, and two that are off the axis
Frustums ==
    {[l |-> Q(-2, 15), r |-> Q(2, 15), b |-> Q(-1, 10), t |-> Q(1, 10),
      n |-> Q(1, 10), f |-> Q(10, 1)],
     [l |-> Q(-1, 1), r |-> One, b |-> Q(-1, 1), t |-> One, n |-> One, f |-> Q(10, 1)],
     [l |-> Q(-1, 1), r |-> Two, b |-> Q(-1, 2), t |-> One, n |-> Half, f |-> Q(4, 1)],
     [l |-> Zero, r |-> One, b |-> Zero, t |-> One, n |-> One, f |-> Two]}

\* what r, theta, phi of a vec3_t may hold that was declared and not set
IndeterminateSpherical ==
    {[r |-> Zero, theta |-> ThetaZero, phi |-> PhiZero],
     [r |-> One, theta |-> acosf(Zero), phi |-> PhiZero],
     [r |-> Q(7, 1), theta |-> acosf(Half), phi |-> atan2f_wrapped(One, Zero)],
     [r |-> Q(-1, 1), theta |-> ThetaZero, phi |-> atan2f_wrapped(One, One)]}

\* the x, y, z of vectors whose length is rational: zero, shorter than
\* epsilon, epsilon long, unit and longer
Components ==
    {<<Zero, Zero, Zero>>, <<One, Zero, Zero>>, <<Zero, Q(-1, 1), Zero>>,
     <<Zero, Zero, Q(-2, 1)>>, <<Q(3, 1), Q(4, 1), Zero>>, <<One, Two, Two>>,
     <<Q(-2, 1), Q(3, 1), Q(6, 1)>>, <<Q(3, 5), Q(4, 5), Zero>>,
     <<Q(2, 3), Q(-1, 3), Q(2, 3)>>, <<Q(1, 16777216), Zero, Zero>>,
     <<Zero, Q(-1, 33554432), Zero>>, <<Q(3, 67108864), Zero, Q(4, 67108864)>>,
     <<Zero, FLT_EPSILON, Zero>>, <<Zero, Zero, Q(1, 4194304)>>}

\* the vectors the factories make of them
Vectors == {vec3_set_cartesian(Null, c[1], c[2], c[3]) : c \in Components}

\* unit vectors as the factories make them, and two whose theta and phi were
\* never set
UnitVectors ==
    {vec3_set_cartesian(Null, c[1], c[2], c[3]) :
        c \in {<<One, Zero, Zero>>, <<Q(-1, 1), Zero, Zero>>, <<Q(3, 5), Q(4, 5), Zero>>,
               <<Q(7, 25), Q(24, 25), Zero>>, <<Zero, Zero, One>>,
               <<Q(2, 3), Q(-1, 3), Q(2, 3)>>}}
    \cup {[x |-> Q(3, 5), y |-> Q(4, 5), z |-> Zero, r |-> One,
           theta |-> ThetaZero, phi |-> PhiZero],
          [x |-> Zero, y |-> Zero, z |-> Q(-1, 1), r |-> One,
           theta |-> acosf(Half), phi |-> atan2f_wrapped(One, Zero)]}

\* the parameter of an interpolation, inside and outside [0, 1]
Parameters == {Q(-1, 1), Zero, Half, One, Q(3, 1)}

\* the world positions of the two ends of an edge
EdgeEnds ==
    {<<V(Zero, Zero, Zero), V(Q(3, 1), Q(4, 1), Zero)>>,
     <<V(One, One, One), V(Two, Q(3, 1), Q(3, 1))>>,
     <<V(One, One, One), V(One, One, One)>>,
     <<V(Zero, Zero, One), V(Zero, Zero, Q(-1, 1))>>,
     <<V(Two, Zero, Zero), V(Zero, Zero, Zero)>>}

\* fields of view of pi/2 and 3 pi/2, as multiples of pi
FieldsOfView == {Q(1, 2), Q(3, 2)}

AspectRatios == {Q(4, 3), One, Two, Half, Q(16, 9)}

\* near and far planes
ClipPlanes == {<<Q(1, 10), Q(10, 1)>>, <<One, Q(100, 1)>>, <<Half, Two>>, <<Two, Q(3, 1)>>}

\* the vertices project_vertex is called with
Vertices ==
    {V(Zero, Half, Zero), V(Q(-1, 2), Q(-1, 2), Zero), V(Zero, Zero, Zero),
     V(Q(-2, 1), One, Zero), V(Q(4, 1), Zero, Zero), V(Q(5, 1), Zero, Zero),
     V(Zero, Q(3, 1), Zero), V(Zero, Q(-4, 1), Zero),
     V(Zero, Zero, Q(-7, 1)), V(Zero, Zero, Q(-8, 1)), V(Zero, Zero, Q(29, 10)),
     V(Zero, Zero, Q(59, 20)), V(Zero, Zero, Q(3, 1)), V(One, One, Q(4, 1))}

\* the calls of project_vertex: every vertex under every model matrix, and
\* the two vertices next to the eye where they are
Projections ==
    {[local_vertex |-> v, model_matrix |-> m] : v \in Vertices, m \in ModelMatrices}
    \cup {[local_vertex |-> v, model_matrix |-> mat4_identity] :
            v \in {NearlyAtEye, JustBeforeEye}}

Scene(model, model_matrix) == [model |-> model, model_matrix |-> model_matrix]

\* the models render_wireframe is called with, each where it is placed
Scenes ==
    {Scene(m, mat4_identity) : m \in Models}
    \cup {Scene(m, mm) : m \in {ModelDepths, ModelEdge}, mm \in ModelMatrices}

\* a model without a vertex array, and models placed by no matrix
NullScenes ==
    {Scene(ModelNoVertexArray, mat4_identity), Scene(ModelNoEdgeArray, mat4_identity),
     Scene(Null, mat4_identity), Scene(ModelEdge, NullArray), Scene(ModelClipped, NullArray)}

\* the view and projection matrices, with one of them NULL
NullCameras ==
    {[view_matrix |-> NullArray, projection_matrix |-> ProjectionMatrix],
     [view_matrix |-> ViewMatrix, projection_matrix |-> NullArray]}

Cameras == {[view_matrix |-> ViewMatrix, projection_matrix |-> ProjectionMatrix]} \cup NullCameras

AnyScenes == Scenes \cup NullScenes

FewScenes == {Scene(ModelDepths, mat4_identity), Scene(ModelClipped, mat4_identity)}

FewLightSets == {NoLights}

Screens == {<<MaxWidth, MaxHeight>>, <<200, 150>>, <<64, 64>>}

(***************************************************************************)
(* The operations.                                                         *)
(***************************************************************************)
CanvasCreateOf(dims) ==
    /\ canvas = Null
    /\ \E d \in dims, structOk \in BOOLEAN, pixelsOk \in BOOLEAN :
          \E out \in canvas_create_outcomes(d[1], d[2], structOk, pixelsOk) :
              /\ canvas' = out.canvas
              /\ log' = [Call("canvas_create",
                              [width |-> d[1], height |-> d[2],
                               structOk |-> structOk, pixelsOk |-> pixelsOk], canvas)
                            EXCEPT !.live = out.live]
    /\ UNCHANGED nops

CanvasCreate == CanvasCreateOf(CreateDims)

\* canvas_create with small and with very large dimensions
CanvasCreateAny == CanvasCreateOf(AnyDims)

CanvasClear ==
    /\ nops < MaxOps
    /\ \E intensity \in ClearIntensities :
          /\ canvas' = canvas_clear(canvas, intensity)
          /\ log' = Call("canvas_clear", [intensity |-> intensity], canvas)
    /\ nops' = nops + 1

CanvasSetCircularViewport ==
    /\ nops < MaxOps
    /\ \E radius \in Radii :
          /\ canvas' = canvas_set_circular_viewport(canvas, radius)
          /\ log' = Call("canvas_set_circular_viewport", [radius |-> radius], canvas)
    /\ nops' = nops + 1

SetPixelF ==
    /\ nops < MaxOps
    /\ \E x \in PixelXs, y \in PixelYs, intensity \in PixelIntensities :
          /\ canvas' = set_pixel_f(canvas, x, y, intensity)
          /\ log' = [Call("set_pixel_f", [x |-> x, y |-> y, intensity |-> intensity], canvas)
                        EXCEPT !.accessed = set_pixel_f_accessed(canvas, x, y)]
    /\ nops' = nops + 1

\* canvas_save_to_pgm, on the canvas, on no canvas or on one without pixels
CanvasSaveToPgm ==
    /\ nops < MaxOps
    /\ \E target \in {canvas, Null, without_pixels(canvas), WideCanvas},
          filename \in Filenames, fopenOk \in BOOLEAN :
          log' = [Call("canvas_save_to_pgm",
                       [canvas |-> target, filename |-> filename, fopenOk |-> fopenOk],
                       canvas)
                    EXCEPT !.saved = canvas_save_to_pgm(target, filename, fopenOk)]
    /\ nops' = nops + 1
    /\ UNCHANGED canvas

DrawLineF(starts, deltas, thicknesses, intensities) ==
    /\ nops < MaxOps
    /\ \E p \in starts, d \in deltas, thickness \in thicknesses,
          line_intensity \in intensities :
          \E x1 \in {RAdd(p[1], d[1])}, y1 \in {RAdd(p[2], d[2])} :
          \E samples \in {IF canvas = Null THEN << >>
                          ELSE draw_line_f_samples(p[1], p[2], x1, y1, thickness,
                                                   line_intensity)} :
              /\ canvas' = draw_line_f(canvas, p[1], p[2], x1, y1, thickness, line_intensity)
              /\ log' = [Call("draw_line_f",
                              [x0 |-> p[1], y0 |-> p[2], x1 |-> x1, y1 |-> y1,
                               thickness |-> thickness, line_intensity |-> line_intensity],
                              canvas)
                            EXCEPT !.samples = samples,
                                   !.accessed = splat_accessed(canvas, splat_points(samples)),
                                   !.returned =
                                       IF canvas # Null
                                          /\ draw_line_f_hangs(p[1], p[2], x1, y1, thickness,
                                                               line_intensity)
                                       THEN "never" ELSE ""]
    /\ nops' = nops + 1

DrawLineFew == DrawLineF(LineStarts, FewLineDeltas, FewThicknesses, FewLineIntensities)

DrawLineOnce ==
    /\ nops = 0
    /\ DrawLineF(LineStarts, LineDeltas, Thicknesses, LineIntensities)

\* one call with a thickness a float counter can or cannot step through
DrawLineThick ==
    /\ nops = 0
    /\ DrawLineF(LineStarts, LineDeltas, ThickThicknesses, LineIntensities)

\* render_wireframe: the allocations may fail, and qsort may leave edges of
\* equal depth in any order
RenderWireframeOn(target, view_matrix, projection_matrix, scenes, lightSets, radii, thicknesses, allocations) ==
    /\ nops < MaxOps
    /\ \E scene \in scenes, l \in lightSets,
          viewport_radius_param \in radii, line_thickness \in thicknesses,
          projectedOk \in allocations, edgesOk \in allocations :
          \E model \in {scene.model}, model_matrix \in {scene.model_matrix} :
          \E prep \in {render_wireframe_prepare(target, model, model_matrix, view_matrix,
                                                projection_matrix, viewport_radius_param,
                                                projectedOk, edgesOk)} :
              \E sorted \in qsort_results(prep.edges_to_render) :
                \E r \in {render_wireframe(target, model, model_matrix, view_matrix,
                                           projection_matrix, l.lights, l.num_lights,
                                           viewport_radius_param, line_thickness,
                                           projectedOk, edgesOk, sorted)} :
                \E samples \in {draws_samples(r.draws)} :
                    /\ canvas' = IF target = Null THEN canvas ELSE r.canvas
                    /\ log' = [Call("render_wireframe",
                                    [canvas |-> target, model |-> model,
                                     model_matrix |-> model_matrix,
                                     view_matrix |-> view_matrix,
                                     projection_matrix |-> projection_matrix,
                                     lights |-> l.lights, num_lights |-> l.num_lights,
                                     viewport_radius_param |-> viewport_radius_param,
                                     line_thickness |-> line_thickness], canvas)
                                  EXCEPT !.returned = r.returned,
                                         !.projected_vertices = r.projected_vertices,
                                         !.unsorted = r.unsorted,
                                         !.edges_to_render = r.edges_to_render,
                                         !.draws = r.draws,
                                         !.samples = samples,
                                         !.accessed = splat_accessed(canvas,
                                                          splat_points(samples))]
    /\ nops' = nops + 1

\* render_wireframe on the canvas, through the camera of the pipeline test
RenderWireframe(scenes, lightSets, radii, thicknesses, allocations) ==
    RenderWireframeOn(canvas, ViewMatrix, ProjectionMatrix, scenes, lightSets, radii,
                      thicknesses, allocations)

RenderWireframeFew ==
    RenderWireframe(FewScenes, FewLightSets, FewRadii, FewRenderThicknesses, Succeeds)

RenderWireframeOnce ==
    /\ nops = 0
    /\ RenderWireframe(Scenes, LightSets, RenderRadii, RenderThicknesses, BOOLEAN)

\* render_wireframe with a NULL canvas, model, array or matrix
RenderWireframeNull ==
    /\ nops = 0
    /\ \E target \in {canvas, Null}, camera \in Cameras :
          RenderWireframeOn(target, camera.view_matrix, camera.projection_matrix,
                            IF target = Null \/ camera \in NullCameras
                            THEN AnyScenes ELSE NullScenes,
                            LightSets, FewRadii, FewRenderThicknesses, Succeeds)

\* calculate_total_lighting_intensity, a function of its arguments; the
\* count is at most the length of the array, and may go with a NULL array
CalculateTotalLightingIntensity ==
    /\ nops = 0
    /\ \E surface_normal \in LightingNormals, lights \in LightArrays,
          num_lights \in LightCounts :
          /\ lights = NullArray \/ num_lights <= Cardinality(DOMAIN lights)
          /\ log' = [Call("calculate_total_lighting_intensity",
                          [surface_normal |-> surface_normal, lights |-> lights,
                           num_lights |-> num_lights], canvas)
                        EXCEPT !.result = calculate_total_lighting_intensity(
                                              surface_normal, lights, num_lights)]
    /\ nops' = nops + 1
    /\ UNCHANGED canvas

\* mat4_multiply, a function of its arguments
Mat4Multiply ==
    /\ nops = 0
    /\ \E a \in AffineMatrices, b \in AffineMatrices :
          log' = [Call("mat4_multiply", [a |-> a, b |-> b], canvas)
                    EXCEPT !.result = mat4_multiply(a, b)]
    /\ nops' = nops + 1
    /\ UNCHANGED canvas

\* mat4_transform_point, a function of its arguments
Mat4TransformPoint ==
    /\ nops = 0
    /\ \E mat \in AnyMatrices, p \in Points :
          log' = [Call("mat4_transform_point", [mat |-> mat, p |-> p], canvas)
                    EXCEPT !.result = mat4_transform_point(mat, p)]
    /\ nops' = nops + 1
    /\ UNCHANGED canvas

\* project_vertex, a function of its arguments
ProjectVertex ==
    /\ nops = 0
    /\ \E p \in Projections, screen \in Screens :
          \E local_vertex \in {p.local_vertex}, model_matrix \in {p.model_matrix} :
          log' = [Call("project_vertex",
                       [local_vertex |-> local_vertex, model_matrix |-> model_matrix,
                        screen_width |-> screen[1], screen_height |-> screen[2]], canvas)
                    EXCEPT !.pv = project_vertex(local_vertex, model_matrix, ViewMatrix,
                                                 ProjectionMatrix, screen[1], screen[2])]
    /\ nops' = nops + 1
    /\ UNCHANGED canvas

\* vec3_create_cartesian: a vector declared, then set
Vec3CreateCartesian ==
    /\ nops = 0
    /\ \E c \in Components, garbage \in IndeterminateSpherical :
          log' = [Call("vec3_create_cartesian", [x |-> c[1], y |-> c[2], z |-> c[3]], canvas)
                    EXCEPT !.result = vec3_set_cartesian(V(Zero, Zero, Zero) @@ garbage,
                                                         c[1], c[2], c[3])]
    /\ nops' = nops + 1
    /\ UNCHANGED canvas

\* vec3_normalize on a vector a factory made or vec3_normalize left
Vec3Normalize ==
    /\ nops = 0
    /\ \E u \in Vectors, again \in BOOLEAN :
          \E v \in {IF again THEN vec3_normalize(u) ELSE u} :
          log' = [Call("vec3_normalize", [v |-> v], canvas)
                    EXCEPT !.result = vec3_normalize(v)]
    /\ nops' = nops + 1
    /\ UNCHANGED canvas

\* the control points of a curve
ControlPoints ==
    {V(Zero, Zero, Zero), V(One, Two, Zero), V(Q(-3, 1), Half, One), V(Q(4, 1), Zero, Q(-2, 1))}

\* the parameter of a curve, inside and outside [0, 1]
CurveParameters == {Q(-1, 1), Q(-1, 4), Zero, Q(1, 4), Half, One, Q(5, 4), Q(3, 1)}

\* bezier_cubic, a function of its arguments
BezierCubic ==
    /\ nops = 0
    /\ \E p0 \in ControlPoints, p1 \in ControlPoints, p2 \in ControlPoints,
          p3 \in ControlPoints, t \in CurveParameters :
          log' = [Call("bezier_cubic", [p0 |-> p0, p1 |-> p1, p2 |-> p2, p3 |-> p3, t |-> t],
                       canvas)
                    EXCEPT !.result = bezier_cubic(p0, p1, p2, p3, t)]
    /\ nops' = nops + 1
    /\ UNCHANGED canvas

\* vec3_slerp, a function of its arguments
Vec3Slerp ==
    /\ nops = 0
    /\ \E v_a \in UnitVectors, v_b \in UnitVectors, t \in Parameters :
          log' = [Call("vec3_slerp", [v_a |-> v_a, v_b |-> v_b, t |-> t], canvas)
                    EXCEPT !.result = vec3_slerp(v_a, v_b, t)]
    /\ nops' = nops + 1
    /\ UNCHANGED canvas

\* mat4_transform_point with all the fields of the vector it returns
Mat4TransformPointFields ==
    /\ nops = 0
    /\ \E mat \in AffineMatrices, p \in Points :
          log' = [Call("mat4_transform_point.res", [mat |-> mat, p |-> p], canvas)
                    EXCEPT !.result = vec3_update_spherical_from_cartesian(
                                          mat4_transform_point(mat, p))]
    /\ nops' = nops + 1
    /\ UNCHANGED canvas

\* the edge direction render_wireframe builds for the lighting: declared,
\* x, y, z assigned, then normalized
RenderEdgeDirection ==
    /\ nops = 0
    /\ \E ends \in EdgeEnds, garbage \in IndeterminateSpherical :
          log' = [Call("render_wireframe.edge_dir_world",
                       [v0_world |-> ends[1], v1_world |-> ends[2]], canvas)
                    EXCEPT !.result =
                        vec3_normalize([x |-> RSub(ends[2].x, ends[1].x),
                                        y |-> RSub(ends[2].y, ends[1].y),
                                        z |-> RSub(ends[2].z, ends[1].z)] @@ garbage)]
    /\ nops' = nops + 1
    /\ UNCHANGED canvas

\* all the fields of the position_screen project_vertex returns: pv is
\* declared, and set by vec3_set_cartesian unless the vertex is behind the eye
ProjectVertexPosition ==
    /\ nops = 0
    /\ \E local_vertex \in Vertices, model_matrix \in ModelMatrices,
          garbage \in IndeterminateSpherical :
          \E p \in {[local_vertex |-> local_vertex, model_matrix |-> model_matrix]} :
          \E pv \in {project_vertex(p.local_vertex, p.model_matrix, ViewMatrix,
                                     ProjectionMatrix, MaxWidth, MaxHeight)} :
          log' = [Call("project_vertex.position_screen",
                       [local_vertex |-> p.local_vertex, model_matrix |-> p.model_matrix],
                       canvas)
                    EXCEPT !.pv = pv,
                           !.result =
                               IF pv.is_clipped = BehindEye
                               THEN pv.position_screen @@ garbage
                               ELSE vec3_set_cartesian(pv.position_screen @@ garbage,
                                                       pv.position_screen.x,
                                                       pv.position_screen.y,
                                                       pv.position_screen.z)]
    /\ nops' = nops + 1
    /\ UNCHANGED canvas

\* mat4_perspective, a function of its arguments
Mat4Perspective ==
    /\ nops = 0
    /\ \E fovy_rad \in FieldsOfView, aspect \in AspectRatios, planes \in ClipPlanes :
          log' = [Call("mat4_perspective",
                       [fovy_rad |-> fovy_rad, aspect |-> aspect,
                        n |-> planes[1], f |-> planes[2]], canvas)
                    EXCEPT !.result = mat4_perspective(fovy_rad, aspect, planes[1], planes[2])]
    /\ nops' = nops + 1
    /\ UNCHANGED canvas

\* project_vertex through the matrix mat4_frustum_asymmetric builds
ProjectVertexFrustum ==
    /\ nops = 0
    /\ \E p \in Projections, fr \in Frustums :
          \E projection_matrix \in {mat4_frustum_asymmetric(fr.l, fr.r, fr.b, fr.t, fr.n, fr.f)} :
          log' = [Call("project_vertex",
                       [local_vertex |-> p.local_vertex, model_matrix |-> p.model_matrix,
                        frustum |-> fr, projection_matrix |-> projection_matrix,
                        screen_width |-> MaxWidth, screen_height |-> MaxHeight], canvas)
                    EXCEPT !.pv = project_vertex(p.local_vertex, p.model_matrix, ViewMatrix,
                                                 projection_matrix, MaxWidth, MaxHeight)]
    /\ nops' = nops + 1
    /\ UNCHANGED canvas

Init ==
    /\ canvas = Null
    /\ log = Call("none", [none |-> TRUE], Null)
    /\ nops = 0

Next ==
    \/ CanvasCreate
    \/ CanvasClear
    \/ CanvasSetCircularViewport
    \/ SetPixelF
    \/ DrawLineFew
    \/ RenderWireframeFew
    \/ CanvasSaveToPgm

\* every sequence of at most MaxOps calls on the canvas
Spec == Init /\ [][Next]_vars

\* a created canvas, as it is, cleared to grey, or with a circular viewport
PreparedCanvases ==
    {TheCanvas, canvas_clear(TheCanvas, Q(1, 2)),
     canvas_set_circular_viewport(TheCanvas, Q(3, 2))}

InitPrepared ==
    /\ canvas \in PreparedCanvases
    /\ log = Call("none", [none |-> TRUE], Null)
    /\ nops = 0

NextLine == DrawLineOnce

\* one draw_line_f call on a prepared canvas
SpecLine == InitPrepared /\ [][NextLine]_vars

NextCreate == CanvasCreateAny

\* canvas_create, called until it returns a canvas
SpecCreate == Init /\ [][NextCreate]_vars

NextThick == DrawLineThick

\* one draw_line_f call on a prepared canvas, thin or very thick
SpecThick == InitPrepared /\ [][NextThick]_vars

NextRender == RenderWireframeOnce \/ RenderWireframeNull

\* one render_wireframe call on a prepared canvas
SpecRender == InitPrepared /\ [][NextRender]_vars

\* models that render_wireframe returns early on
EmptyScenes ==
    {Scene(m, mat4_identity) : m \in {Null, ModelNoVertices, ModelNoEdges, ModelNoEdgeArray,
                                         ModelNoVertexArray}}

ViewportRadii == {Zero, Q(5, 4)}

\* render_wireframe as the first call, its allocations succeeding or not
RenderWireframeViewport ==
    /\ nops = 0
    /\ RenderWireframe(FewScenes, FewLightSets, ViewportRadii, FewRenderThicknesses, BOOLEAN)

\* render_wireframe of a model without geometry, at any time
RenderWireframeEmpty ==
    RenderWireframe(EmptyScenes, FewLightSets, ViewportRadii, FewRenderThicknesses, Succeeds)

\* set_pixel_f and draw_line_f once the canvas was cleared, given a
\* viewport or rendered to
SetPixelLater == nops > 0 /\ SetPixelF

DrawLineLater == nops > 0 /\ DrawLineFew

NextViewport ==
    \/ CanvasClear
    \/ CanvasSetCircularViewport
    \/ SetPixelLater
    \/ DrawLineLater
    \/ RenderWireframeViewport
    \/ RenderWireframeEmpty
    \/ CanvasSaveToPgm

\* a call that sets the canvas up and one call after it, on a prepared
\* canvas
SpecViewport == InitPrepared /\ [][NextViewport]_vars

\* one set_pixel_f, draw_line_f or render_wireframe call as the first call
SetPixelOnce == nops = 0 /\ SetPixelF

DrawLineFirst == nops = 0 /\ DrawLineFew

RenderWireframeLit ==
    /\ nops = 0
    /\ RenderWireframe(FewScenes, LightSets, FewRadii, FewRenderThicknesses, Succeeds)

NextSplat ==
    \/ SetPixelOnce
    \/ DrawLineFirst
    \/ RenderWireframeLit

\* one drawing call on a prepared canvas
SpecSplat == InitPrepared /\ [][NextSplat]_vars

InitProject ==
    /\ canvas = TheCanvas
    /\ log = Call("none", [none |-> TRUE], Null)
    /\ nops = 0

NextProject == ProjectVertex

\* one project_vertex call
SpecProject == InitProject /\ [][NextProject]_vars

NextLighting == CalculateTotalLightingIntensity

\* one calculate_total_lighting_intensity call
SpecLighting == InitProject /\ [][NextLighting]_vars

NextFrustum == ProjectVertexFrustum

\* one project_vertex call through a frustum matrix
SpecFrustum == InitProject /\ [][NextFrustum]_vars

NextVector ==
    \/ Vec3CreateCartesian
    \/ Vec3Normalize
    \/ Vec3Slerp
    \/ BezierCubic
    \/ Mat4TransformPointFields
    \/ RenderEdgeDirection
    \/ ProjectVertexPosition

\* one call that makes or changes a vec3_t
SpecVector == InitProject /\ [][NextVector]_vars

\* the lines of the texts that are loaded
Index(v) == [digits |-> TRUE, value |-> v]
Junk == [digits |-> FALSE, value |-> 0]
VertexLine(scalars) == [kind |-> "v", scalars |-> scalars, tokens |-> << >>]
FaceLine(tokens) == [kind |-> "f", scalars |-> << >>, tokens |-> tokens]
OtherLine == [kind |-> "#", scalars |-> << >>, tokens |-> << >>]

VertexLines ==
    <<VertexLine(<<Zero, Zero, Zero>>), VertexLine(<<One, Zero, Zero>>),
      VertexLine(<<Zero, One, Zero>>), VertexLine(<<Zero, Zero, One>>)>>

\* no vertex, three, three around a record of two scalars, four
VertexBlocks ==
    {<< >>,
     SubSeq(VertexLines, 1, 3),
     <<VertexLines[1], VertexLine(<<One, One>>), VertexLines[2], VertexLines[3]>>,
     VertexLines}

\* a face of 33 indices, 1 2 3 eleven times over
LongFace == FaceLine([i \in 1..(MaxFaceVerts + 1) |-> Index(((i - 1) % 3) + 1)])

FaceLines ==
    {FaceLine(<<Index(1), Index(2), Index(3)>>),
     FaceLine(<<Index(3), Index(1)>>),
     FaceLine(<<Index(1), Index(3), Index(4), Index(2)>>),
     FaceLine(<<Index(0), Index(1), Index(2)>>),
     FaceLine(<<Index(-1), Index(2), Index(3)>>),
     FaceLine(<<Index((-IntMax) - 1), Index(1), Index(2)>>),
     FaceLine(<<Index(2), Junk, Index(3), Index(1)>>),
     FaceLine(<<Index(3), Index(1), Index(2), Index(9)>>),
     FaceLine(<<Junk, Index(1), Index(2)>>),
     LongFace,
     OtherLine}

FaceRuns == {<< >>} \cup {<<f>> : f \in FaceLines} \cup {<<f, g>> : f, g \in FaceLines}
LeadingFaces == {<< >>, <<FaceLine(<<Index(1), Index(2), Index(3)>>)>>}
TrailingVertices == {<< >>, <<VertexLine(<<One, One, One>>)>>}

ObjTexts ==
    {Null} \cup {[lines |-> lead \o block \o run \o trail] :
                    lead \in LeadingFaces, block \in VertexBlocks,
                    run \in FaceRuns, trail \in TrailingVertices}

\* the text embedded in generate_soccer_ball: 60 vertex records, then 12
\* pentagons and 20 hexagons
SoccerBallVertices ==
    <<<<Zero, Zero, Q(1021, 1000)>>,
      <<Q(2017741, 5000000), Zero, Q(9378643, 10000000)>>,
      <<Q(-568661, 2500000), Q(3333333, 10000000), Q(9378643, 10000000)>>,
      <<Q(-735613, 5000000), Q(-187887, 500000), Q(9378643, 10000000)>>,
      <<Q(36227, 62500), Q(3333333, 10000000), Q(7715933, 10000000)>>,
      <<Q(5058321, 10000000), Q(-187887, 500000), Q(8033483, 10000000)>>,
      <<Q(-3010257, 5000000), Q(2908927, 10000000), Q(7715933, 10000000)>>,
      <<Q(-5138057, 100000000), Q(6666667, 10000000), Q(7715933, 10000000)>>,
      <<Q(413747, 2500000), Q(-6080151, 10000000), Q(8033483, 10000000)>>,
      <<Q(-652137, 1250000), Q(-4182147, 10000000), Q(7715933, 10000000)>>,
      <<Q(4289999, 5000000), Q(2908927, 10000000), Q(2354031, 5000000)>>,
      <<Q(880419, 2500000), Q(6666667, 10000000), Q(3442289, 5000000)>>,
      <<Q(7841999, 10000000), Q(-4182147, 10000000), Q(1256403, 2500000)>>,
      <<Q(-26299, 40000), Q(2989981, 5000000), Q(1256403, 2500000)>>,
      <<Q(-374587, 500000), Q(-4244067, 50000000), Q(3442289, 5000000)>>,
      <<Q(-1585709, 5000000), Q(8302373, 10000000), Q(1256403, 2500000)>>,
      <<Q(1035333, 10000000), Q(-8826969, 10000000), Q(1256403, 2500000)>>,
      <<Q(-5836751, 10000000), Q(-1732241, 2500000), Q(2354031, 5000000)>>,
      <<Q(8025761, 10000000), Q(2989981, 5000000), Q(2017741, 10000000)>>,
      <<Q(9602837, 10000000), Q(-4244067, 50000000), Q(1681451, 5000000)>>,
      <<Q(4899547, 10000000), Q(8302373, 10000000), Q(1681451, 5000000)>>,
      <<Q(7222343, 10000000), Q(-1732241, 2500000), Q(2017741, 10000000)>>,
      <<Q(-8600213, 10000000), Q(2646629, 5000000), Q(300787, 2000000)>>,
      <<Q(-9517203, 10000000), Q(-767759, 5000000), Q(1681451, 5000000)>>,
      <<Q(-448387, 2500000), Q(62113, 62500), Q(300787, 2000000)>>,
      <<Q(381901, 1000000), Q(-74011, 80000), Q(2017741, 10000000)>>,
      <<Q(-2710537, 10000000), Q(-74011, 80000), Q(1681451, 5000000)>>,
      <<Q(-8494363, 10000000), Q(-2646629, 5000000), Q(2017741, 10000000)>>,
      <<Q(8494363, 10000000), Q(2646629, 5000000), Q(-2017741, 10000000)>>,
      <<Q(125893, 125000), Q(-767759, 5000000), Q(-1681451, 25000000)>>,
      <<Q(448387, 2000000), Q(62113, 62500), Q(1681451, 25000000)>>,
      <<Q(8600213, 10000000), Q(-2646629, 5000000), Q(-300787, 2000000)>>,
      <<Q(-7222343, 10000000), Q(1732241, 2500000), Q(-2017741, 10000000)>>,
      <<Q(-125893, 125000), Q(767759, 5000000), Q(1681451, 25000000)>>,
      <<Q(-381901, 1000000), Q(74011, 80000), Q(-2017741, 10000000)>>,
      <<Q(448387, 2500000), Q(-62113, 62500), Q(-300787, 2000000)>>,
      <<Q(-448387, 2000000), Q(-62113, 62500), Q(-1681451, 25000000)>>,
      <<Q(-8025761, 10000000), Q(-2989981, 5000000), Q(-2017741, 10000000)>>,
      <<Q(5836751, 10000000), Q(1732241, 2500000), Q(-2354031, 5000000)>>,
      <<Q(9517203, 10000000), Q(767759, 5000000), Q(-1681451, 5000000)>>,
      <<Q(2710537, 10000000), Q(74011, 80000), Q(-1681451, 5000000)>>,
      <<Q(26299, 40000), Q(-2989981, 5000000), Q(-1256403, 2500000)>>,
      <<Q(-7841999, 10000000), Q(4182147, 10000000), Q(-1256403, 2500000)>>,
      <<Q(-9602837, 10000000), Q(4244067, 50000000), Q(-1681451, 5000000)>>,
      <<Q(-1035333, 10000000), Q(8826969, 10000000), Q(-1256403, 2500000)>>,
      <<Q(1585709, 5000000), Q(-8302373, 10000000), Q(-1256403, 2500000)>>,
      <<Q(-4899547, 10000000), Q(-8302373, 10000000), Q(-1681451, 5000000)>>,
      <<Q(-4289999, 5000000), Q(-2908927, 10000000), Q(-2354031, 5000000)>>,
      <<Q(652137, 1250000), Q(4182147, 10000000), Q(-7715933, 10000000)>>,
      <<Q(374587, 500000), Q(4244067, 50000000), Q(-3442289, 5000000)>>,
      <<Q(3010257, 5000000), Q(-2908927, 10000000), Q(-7715933, 10000000)>>,
      <<Q(-5058321, 10000000), Q(187887, 500000), Q(-8033483, 10000000)>>,
      <<Q(-413747, 2500000), Q(6080151, 10000000), Q(-8033483, 10000000)>>,
      <<Q(5138057, 100000000), Q(-6666667, 10000000), Q(-7715933, 10000000)>>,
      <<Q(-880419, 2500000), Q(-6666667, 10000000), Q(-3442289, 5000000)>>,
      <<Q(-36227, 62500), Q(-3333333, 10000000), Q(-7715933, 10000000)>>,
      <<Q(735613, 5000000), Q(187887, 500000), Q(-9378643, 10000000)>>,
      <<Q(568661, 2500000), Q(-3333333, 10000000), Q(-9378643, 10000000)>>,
      <<Q(-2017741, 5000000), Zero, Q(-9378643, 10000000)>>,
      <<Zero, Zero, Q(-1021, 1000)>>>>

SoccerBallFaces ==
    <<<<1, 4, 9, 6, 2>>,
      <<3, 8, 16, 14, 7>>,
      <<5, 11, 19, 21, 12>>,
      <<10, 15, 24, 28, 18>>,
      <<13, 22, 32, 30, 20>>,
      <<17, 27, 37, 36, 26>>,
      <<23, 33, 43, 44, 34>>,
      <<25, 31, 41, 45, 35>>,
      <<29, 40, 50, 49, 39>>,
      <<38, 48, 56, 55, 47>>,
      <<42, 46, 54, 58, 51>>,
      <<52, 53, 57, 60, 59>>,
      <<1, 2, 5, 12, 8, 3>>,
      <<1, 3, 7, 15, 10, 4>>,
      <<2, 6, 13, 20, 11, 5>>,
      <<4, 10, 18, 27, 17, 9>>,
      <<6, 9, 17, 26, 22, 13>>,
      <<7, 14, 23, 34, 24, 15>>,
      <<8, 12, 21, 31, 25, 16>>,
      <<11, 20, 30, 40, 29, 19>>,
      <<14, 16, 25, 35, 33, 23>>,
      <<18, 28, 38, 47, 37, 27>>,
      <<19, 29, 39, 41, 31, 21>>,
      <<22, 26, 36, 46, 42, 32>>,
      <<24, 34, 44, 48, 38, 28>>,
      <<30, 32, 42, 51, 50, 40>>,
      <<33, 35, 45, 53, 52, 43>>,
      <<36, 37, 47, 55, 54, 46>>,
      <<39, 49, 57, 53, 45, 41>>,
      <<43, 52, 59, 56, 48, 44>>,
      <<49, 50, 51, 58, 60, 57>>,
      <<54, 55, 56, 59, 60, 58>>>>

soccer_ball_obj_data ==
    [lines |-> [i \in 1..Len(SoccerBallVertices) |-> VertexLine(SoccerBallVertices[i])]
               \o [i \in 1..Len(SoccerBallFaces) |->
                      FaceLine([k \in 1..Len(SoccerBallFaces[i]) |-> Index(SoccerBallFaces[i][k])])]]

\* the cube that stands in when the text cannot be loaded
CubeModel ==
    [vertices |-> Arr(<<V(Q(-1, 1), Q(-1, 1), Q(-1, 1)), V(One, Q(-1, 1), Q(-1, 1)),
                        V(One, One, Q(-1, 1)), V(Q(-1, 1), One, Q(-1, 1)),
                        V(Q(-1, 1), Q(-1, 1), One), V(One, Q(-1, 1), One),
                        V(One, One, One), V(Q(-1, 1), One, One)>>),
     num_vertices |-> 8,
     edges |-> Arr(<<0, 1, 1, 2, 2, 3, 3, 0, 4, 5, 5, 6, 6, 7, 7, 4, 0, 4, 1, 5, 2, 6, 3, 7>>),
     num_edges |-> 12]

\* generate_soccer_ball: the loaded text, or the cube when loading fails, or
\* NULL when the cube cannot be allocated either
generate_soccer_ball(allocations, cube_allocations) ==
    CHOOSE res \in
        {IF loaded.model # Null THEN loaded
         ELSE IF cube_allocations THEN [model |-> CubeModel, stderr |-> loaded.stderr + 1]
         ELSE [model |-> Null, stderr |-> loaded.stderr + 2] :
            loaded \in {obj_load_from_string(soccer_ball_obj_data, allocations)}} : TRUE

\* obj_load_from_string, a function of its argument and of the allocator
ObjLoadFromString ==
    /\ nops = 0
    /\ \E obj_data_string \in ObjTexts, allocations \in BOOLEAN :
          log' = [Call("obj_load_from_string",
                       [obj_data_string |-> obj_data_string, allocations |-> allocations],
                       canvas)
                    EXCEPT !.result = obj_load_from_string(obj_data_string, allocations)]
    /\ nops' = nops + 1
    /\ UNCHANGED canvas

\* generate_soccer_ball, a function of the allocator
GenerateSoccerBall ==
    /\ nops = 0
    /\ \E allocations \in BOOLEAN, cube_allocations \in BOOLEAN :
          log' = [Call("generate_soccer_ball",
                       [allocations |-> allocations, cube_allocations |-> cube_allocations],
                       canvas)
                    EXCEPT !.result = generate_soccer_ball(allocations, cube_allocations)]
    /\ nops' = nops + 1
    /\ UNCHANGED canvas

NextLoad ==
    \/ ObjLoadFromString
    \/ GenerateSoccerBall

SpecLoad == InitProject /\ [][NextLoad]_vars

NextMath == Mat4Multiply \/ Mat4TransformPoint \/ Mat4Perspective

\* one mat4_multiply, mat4_transform_point or mat4_perspective call
SpecMath == InitProject /\ [][NextMath]_vars

(***************************************************************************)
(* Properties of project_vertex and render_wireframe.                      *)
(***************************************************************************)
Rendered == log.op = "render_wireframe" /\ log.returned = "drawn"

Projected == log.op = "project_vertex"

\* the edges of the rendered model whose two indices are vertices of it
InRangeEdges ==
    {i \in 0..(log.args.model.num_edges - 1) :
        /\ log.args.model.edges[2 * i] \in 0..(log.args.model.num_vertices - 1)
        /\ log.args.model.edges[2 * i + 1] \in 0..(log.args.model.num_vertices - 1)}

\* the two projected endpoints of edge i
Endpoints(i) ==
    <<log.projected_vertices[log.args.model.edges[2 * i]],
      log.projected_vertices[log.args.model.edges[2 * i + 1]]>>

\* the clip position of a vertex of the call, computed from the arguments
ClipOf(local_vertex, model_matrix) ==
    clip_position(camera_position(local_vertex, model_matrix, ViewMatrix), ProjectionMatrix)

\* the positions in a list of edges or draws that belong to edge i
PositionsOf(list, i) == {k \in 1..Len(list) : list[k].original_edge_index = i}

\* C1 (as stated): the draw_line_f calls of one render_wireframe call are in
\* back-to-front order: of two drawn edges with different average depth the
\* one with the more negative average Z is drawn first.
C1_BackToFront ==
    Rendered =>
        \A i, j \in 1..Len(log.draws) :
            (i < j /\ log.draws[i].avg_z # log.draws[j].avg_z)
                => RLt(log.draws[i].avg_z, log.draws[j].avg_z)

\* C2 (as stated): every edge with in-range indices and no BehindEye endpoint
\* produces exactly one draw_line_f call, OutsideFrustum endpoints included.
C2_OutsideFrustumDrawn ==
    Rendered =>
        \A i \in InRangeEdges :
            (Endpoints(i)[1].is_clipped # BehindEye /\ Endpoints(i)[2].is_clipped # BehindEye)
                => Cardinality(PositionsOf(log.draws, i)) = 1

\* C3: a vertex with clip w below epsilon is classified BehindEye, and an edge
\* with such an endpoint is neither in the renderable list (before or after
\* the sort) nor drawn, whatever the other endpoint is.
C3_BehindEyeExcluded ==
    Rendered =>
        /\ \A v \in 0..(log.args.model.num_vertices - 1) :
              RLt(ClipOf(log.args.model.vertices[v], log.args.model_matrix).w, FLT_EPSILON)
                  => log.projected_vertices[v].is_clipped = BehindEye
        /\ \A i \in InRangeEdges :
              (\E n \in {0, 1} :
                  RLt(ClipOf(log.args.model.vertices[log.args.model.edges[2 * i + n]],
                             log.args.model_matrix).w, FLT_EPSILON))
                  => /\ PositionsOf(log.unsorted, i) = {}
                     /\ PositionsOf(log.edges_to_render, i) = {}
                     /\ PositionsOf(log.draws, i) = {}

\* a rendered edge with one endpoint whose w is below epsilon (one of them
\* with a positive w) and the other endpoint Unclipped
C3_Witness ==
    /\ Rendered
    /\ \E i \in InRangeEdges :
          /\ Endpoints(i)[1].is_clipped = Unclipped
          /\ Endpoints(i)[2].is_clipped = BehindEye
    /\ \E i \in InRangeEdges :
          /\ Endpoints(i)[1].is_clipped = BehindEye
          /\ RGt(ClipOf(log.args.model.vertices[log.args.model.edges[2 * i]],
                         log.args.model_matrix).w, Zero)
          /\ Endpoints(i)[2].is_clipped = Unclipped

InUnit(c) == RLe(RNeg(One), c) /\ RLe(c, One)

\* C4: project_vertex returns one of three clip states: BehindEye iff clip
\* w < epsilon, and then the screen x, y are the sentinel; otherwise
\* OutsideFrustum iff one of NDC x, y, z is outside [-1, 1]; otherwise Unclipped.
C4_ClipStates ==
    Projected =>
        LET clip == ClipOf(log.args.local_vertex, log.args.model_matrix)
        IN  /\ log.pv.is_clipped \in {Unclipped, BehindEye, OutsideFrustum}
            /\ log.pv.is_clipped = BehindEye <=> RLt(clip.w, FLT_EPSILON)
            /\ RLt(clip.w, FLT_EPSILON)
                  => /\ log.pv.position_screen.x = <<-10000, 1>>
                     /\ log.pv.position_screen.y = <<-10000, 1>>
            /\ ~RLt(clip.w, FLT_EPSILON)
                  => (log.pv.is_clipped = OutsideFrustum
                        <=> ~(/\ InUnit(RDiv(clip.x, clip.w))
                              /\ InUnit(RDiv(clip.y, clip.w))
                              /\ InUnit(RDiv(clip.z, clip.w))))

\* a vertex outside the frustum on the depth axis only
C4_Witness ==
    /\ Projected
    /\ log.pv.is_clipped = OutsideFrustum
    /\ LET clip == ClipOf(log.args.local_vertex, log.args.model_matrix)
       IN  /\ InUnit(RDiv(clip.x, clip.w))
           /\ InUnit(RDiv(clip.y, clip.w))
           /\ ~InUnit(RDiv(clip.z, clip.w))

\* the call of the pipeline test: identity model matrix, 200x150 screen
PipelineTest(x, y, z) ==
    /\ Projected
    /\ log.args.local_vertex = V(x, y, z)
    /\ log.args.model_matrix = mat4_identity
    /\ log.args.screen_width = 200
    /\ log.args.screen_height = 150

Splatted == log.op \in {"set_pixel_f", "draw_line_f"} /\ log.before # Null

\* the points set_pixel_f was called at: the argument of a set_pixel_f call,
\* every brush offset of every sample of a draw_line_f call
PointsOfCall ==
    IF log.op = "set_pixel_f" THEN {<<log.args.x, log.args.y>>}
    ELSE UNION {{<<RAdd(log.samples[k].x, log.samples[k].brush[b][1]),
                   RAdd(log.samples[k].y, log.samples[k].brush[b][2])>> :
                    b \in 1..Len(log.samples[k].brush)} : k \in 1..Len(log.samples)}

\* the four cells around a point
CellsOf(pt) == {<<floorf(pt[1]) + i, floorf(pt[2]) + j>> : i \in {0, 1}, j \in {0, 1}}

InCanvas(cv, cell) ==
    /\ 0 <= cell[1] /\ cell[1] < cv.width
    /\ 0 <= cell[2] /\ cell[2] < cv.height

\* (px - width/2)^2 + (py - height/2)^2 > r^2
BeyondRadius(cv, px, py) ==
    RGt(RAdd(RMul(RSub(I2R(px), R(cv.width, 2)), RSub(I2R(px), R(cv.width, 2))),
             RMul(RSub(I2R(py), R(cv.height, 2)), RSub(I2R(py), R(cv.height, 2)))),
        RMul(cv.active_viewport_radius, cv.active_viewport_radius))

In01(c) == RLe(Zero, c) /\ RLe(c, One)

\* C6 (as stated): after any sequence of canvas calls every pixel of the
\* canvas is in [0, 1].
C6_PixelsInUnitRange ==
    canvas # Null => \A idx \in DOMAIN canvas.pixels : In01(canvas.pixels[idx])

\* C7: set_pixel_f adds clamp01(intensity) * wx * wy to each of the four cells
\* around (x, y) that is inside the canvas and the viewport, clamps the sum
\* to [0, 1], and leaves every other pixel; the four weights sum to 1.
C7_AdditiveClampedSplat ==
    (log.op = "set_pixel_f" /\ log.before # Null) =>
        LET b == log.before
            fx == RSub(log.args.x, I2R(floorf(log.args.x)))
            fy == RSub(log.args.y, I2R(floorf(log.args.y)))
            wx(i) == IF i = 0 THEN RSub(One, fx) ELSE fx
            wy(j) == IF j = 0 THEN RSub(One, fy) ELSE fy
        IN  /\ RAdd(RAdd(RMul(wx(0), wy(0)), RMul(wx(1), wy(0))),
                     RAdd(RMul(wx(0), wy(1)), RMul(wx(1), wy(1)))) = One
            /\ \A px \in 0..(b.width - 1), py \in 0..(b.height - 1) :
                  LET i == px - floorf(log.args.x)
                      j == py - floorf(log.args.y)
                      old == b.pixels[py * b.width + px]
                  IN  canvas.pixels[py * b.width + px] =
                        IF /\ i \in {0, 1} /\ j \in {0, 1}
                           /\ (RLe(b.active_viewport_radius, Zero)
                                  \/ ~BeyondRadius(b, px, py))
                        THEN Clamp01(RAdd(old, RMul(Clamp01(log.args.intensity),
                                                    RMul(wx(i), wy(j)))))
                        ELSE old

\* a splat on a pixel that was lit already, which gets brighter but not full
C7_Witness ==
    /\ log.op = "set_pixel_f" /\ log.before # Null
    /\ \E idx \in DOMAIN canvas.pixels :
          /\ RGt(log.before.pixels[idx], Zero)
          /\ RGt(canvas.pixels[idx], log.before.pixels[idx])
          /\ RLt(canvas.pixels[idx], One)

\* C8: set_pixel_f and draw_line_f address only buffer entries of cells with
\* 0 <= cx < width and 0 <= cy < height, at the index cy * width + cx; only
\* such cells around the points of the call can change; and a call none of
\* whose cells is inside the canvas leaves the canvas as it was.
C8_NoAccessOutsideBuffer ==
    Splatted =>
        LET b == log.before
            cells == UNION {CellsOf(pt) : pt \in PointsOfCall}
        IN  /\ \A a \in log.accessed :
                  /\ a.pixel_index \in 0..(b.width * b.height - 1)
                  /\ InCanvas(b, <<a.cx, a.cy>>)
                  /\ a.pixel_index = a.cy * b.width + a.cx
            /\ DOMAIN canvas.pixels = 0..(b.width * b.height - 1)
            /\ \A px \in 0..(b.width - 1), py \in 0..(b.height - 1) :
                  canvas.pixels[py * b.width + px] # b.pixels[py * b.width + px]
                      => <<px, py>> \in cells
            /\ (\A cell \in cells : ~InCanvas(b, cell)) => canvas = b

\* a splat of positive intensity with cells on both sides of the canvas edge
C8_Witness ==
    /\ Splatted
    /\ canvas # log.before
    /\ \E pt \in PointsOfCall :
          /\ \E cell \in CellsOf(pt) : InCanvas(log.before, cell)
          /\ \E cell \in CellsOf(pt) : ~InCanvas(log.before, cell)

\* C9: with a viewport radius r > 0 no set_pixel_f or draw_line_f call
\* changes a pixel farther than r from the canvas centre; with r <= 0 every
\* cell of the call that is inside the canvas is written.
C9_CircularViewport ==
    Splatted =>
        LET b == log.before
        IN  /\ RGt(b.active_viewport_radius, Zero) =>
                  \A px \in 0..(b.width - 1), py \in 0..(b.height - 1) :
                      BeyondRadius(b, px, py)
                          => canvas.pixels[py * b.width + px] = b.pixels[py * b.width + px]
            /\ RLe(b.active_viewport_radius, Zero) =>
                  \A pt \in PointsOfCall : \A cell \in CellsOf(pt) :
                      InCanvas(b, cell)
                          => \E a \in log.accessed : a.cx = cell[1] /\ a.cy = cell[2]

\* a splat that changes the canvas while one of its cells inside the canvas
\* lies beyond the radius
C9_Witness ==
    /\ Splatted
    /\ RGt(log.before.active_viewport_radius, Zero)
    /\ canvas # log.before
    /\ \E pt \in PointsOfCall : \E cell \in CellsOf(pt) :
          InCanvas(log.before, cell) /\ BeyondRadius(log.before, cell[1], cell[2])

\* the 0.5-step grid over [-radius, radius] x [-radius, radius]
Grid(radius) ==
    {<<RSub(R(k, 2), radius), RSub(R(l, 2), radius)>> :
        k \in 0..floorf(RMul(I2R(4), radius)), l \in 0..floorf(RMul(I2R(4), radius))}

\* the offsets of the grid with bx*bx + by*by <= radius^2
Disc(radius) ==
    {o \in Grid(radius) :
        RLe(RAdd(RMul(o[1], o[1]), RMul(o[2], o[2])), RMul(radius, radius))}

BrushOf(sample) == {sample.brush[b] : b \in 1..Len(sample.brush)}

\* the number of steps of the line of the call: the larger of |dx| and |dy|,
\* truncated
StepsOfCall ==
    TruncToInt(fmaxf(fabsf(RSub(log.args.x1, log.args.x0)),
                     fabsf(RSub(log.args.y1, log.args.y0))))

LineDrawn == log.op = "draw_line_f" /\ log.before # Null

\* C10 (as stated): at every sample of draw_line_f the offsets set_pixel_f is
\* called for are those of the grid over [-R, R]^2 inside the disc of radius
\* R = max(0.5, thickness / 2).
C10_DiscBrushEverywhere ==
    LineDrawn =>
        \A k \in 1..Len(log.samples) :
            BrushOf(log.samples[k]) = Disc(fmaxf(Half, RDiv(log.args.thickness, Two)))

\* C10 (amended): along a line of one step or more the brush is the whole
\* grid over [-R, R]^2, R = max(0.5, thickness / 2), each offset once; the
\* single sample of a line of zero steps has the disc of radius thickness / 2
\* on the grid over [-thickness/2, thickness/2]^2.
C10_SquareWalkDiscPoint ==
    LineDrawn =>
        \A k \in 1..Len(log.samples) :
            /\ Cardinality(BrushOf(log.samples[k])) = Len(log.samples[k].brush)
            /\ BrushOf(log.samples[k]) =
                  IF StepsOfCall = 0 THEN Disc(RDiv(log.args.thickness, Two))
                  ELSE Grid(fmaxf(Half, RDiv(log.args.thickness, Two)))

\* a line of several samples whose brush has a corner outside the disc
C10_Witness ==
    /\ LineDrawn
    /\ StepsOfCall > 0
    /\ Len(log.samples) = StepsOfCall + 1
    /\ \E o \in BrushOf(log.samples[1]) :
          o \notin Disc(fmaxf(Half, RDiv(log.args.thickness, Two)))

\* the call of draw_line_f got past the intensity test
LineStamped == LineDrawn /\ ~RLt(Clamp01(log.args.line_intensity), FLT_EPSILON)

\* sample i of the line of the call: (x0 + i*dx/steps, y0 + i*dy/steps)
SampleOfCall(i) ==
    IF StepsOfCall = 0 THEN <<log.args.x0, log.args.y0>>
    ELSE <<RAdd(log.args.x0, RDiv(RMul(I2R(i), RSub(log.args.x1, log.args.x0)),
                                  I2R(StepsOfCall))),
           RAdd(log.args.y0, RDiv(RMul(I2R(i), RSub(log.args.y1, log.args.y0)),
                                  I2R(StepsOfCall)))>>

\* C11: a draw_line_f call of non-negligible intensity returns, and has
\* stamped its brush at exactly steps + 1 samples, steps the larger of |dx|
\* and |dy| rounded down: sample i is (x0 + i*dx/steps, y0 + i*dy/steps), the
\* first (x0, y0) and the last (x1, y1); with steps = 0 the one sample is (x0, y0).
C11_SamplesAndTermination ==
    LineStamped =>
        /\ log.returned # "never"
        /\ Len(log.samples) = StepsOfCall + 1
        /\ \A i \in 0..StepsOfCall :
              <<log.samples[i + 1].x, log.samples[i + 1].y>> = SampleOfCall(i)
        /\ <<log.samples[1].x, log.samples[1].y>> = <<log.args.x0, log.args.y0>>
        /\ StepsOfCall > 0 =>
              <<log.samples[Len(log.samples)].x, log.samples[Len(log.samples)].y>>
                 = <<log.args.x1, log.args.y1>>

\* the same of the calls that return
C11_SamplesOfReturningCalls ==
    (LineStamped /\ log.returned # "never") =>
        /\ Len(log.samples) = StepsOfCall + 1
        /\ \A i \in 0..StepsOfCall :
              <<log.samples[i + 1].x, log.samples[i + 1].y>> = SampleOfCall(i)

\* the intensity of the call, clamped, is below FLT_EPSILON
Negligible == RLt(Clamp01(log.args.line_intensity), FLT_EPSILON)

\* C12: a draw_line_f call whose intensity, clamped to [0, 1], is below
\* FLT_EPSILON changes nothing: no pixel, no other field of the canvas, and
\* set_pixel_f is not called, whatever the endpoints and the thickness.
C12_NegligibleIntensityNoOp ==
    (LineDrawn /\ Negligible) =>
        /\ canvas = log.before
        /\ log.samples = << >>
        /\ log.accessed = {}
        /\ log.returned # "never"

\* a call with a positive intensity below FLT_EPSILON on a canvas that a
\* call with FLT_EPSILON would change
C12_Witness ==
    /\ LineDrawn
    /\ Negligible
    /\ RGt(log.args.line_intensity, Zero)
    /\ canvas = log.before
    /\ draw_line_f(log.before, log.args.x0, log.args.y0, log.args.x1, log.args.y1,
                   log.args.thickness, FLT_EPSILON) # log.before

Saved == log.op = "canvas_save_to_pgm"

\* the arguments of the call are a canvas with pixels and a file name that
\* can be opened
SaveValid ==
    /\ log.args.canvas # Null
    /\ log.args.canvas.pixels # NullArray
    /\ log.args.filename # Null
    /\ log.args.fopenOk

SaveNull ==
    \/ log.args.canvas = Null
    \/ log.args.canvas.pixels = NullArray
    \/ log.args.filename = Null

\* the number a sequence of decimal digits stands for
RECURSIVE ParseDecimal(_)
ParseDecimal(digits) ==
    IF Len(digits) = 0 THEN 0
    ELSE ParseDecimal(SubSeq(digits, 1, Len(digits) - 1)) * 10
         + (digits[Len(digits)] - 48)

IsDigits(digits) == Len(digits) > 0 /\ \A k \in 1..Len(digits) : digits[k] \in 48..57

\* P5, newline, width, space, height, newline, 255, newline
IsPgmHeader(bytes, width, height) ==
    \E a \in 1..Len(bytes), b \in 1..Len(bytes) :
        /\ Len(bytes) = 3 + a + 1 + b + 5
        /\ SubSeq(bytes, 1, 3) = <<80, 53, 10>>
        /\ IsDigits(SubSeq(bytes, 4, 3 + a))
        /\ ParseDecimal(SubSeq(bytes, 4, 3 + a)) = width
        /\ bytes[4 + a] = 32
        /\ IsDigits(SubSeq(bytes, 5 + a, 4 + a + b))
        /\ ParseDecimal(SubSeq(bytes, 5 + a, 4 + a + b)) = height
        /\ SubSeq(bytes, 5 + a + b, 9 + a + b) = <<10, 50, 53, 53, 10>>

\* C13: canvas_save_to_pgm on a canvas with pixels and a file name that can
\* be opened returns 0, leaves the canvas as it is, and writes the header
\* P5 / width height / 255 followed by exactly width*height bytes, the byte
\* at offset y*width+x being floor(clamp01(pixel(x, y)) * 255); with a NULL
\* canvas, pixel buffer or file name it returns -1 and writes nothing.
C13_PgmExport ==
    Saved =>
        /\ canvas = log.before
        /\ SaveNull => log.saved.ret = -1 /\ log.saved.file = NullArray
        /\ SaveValid =>
              \E w \in {log.args.canvas.width}, h \in {log.args.canvas.height} :
                \E hdr \in {Len(log.saved.file) - w * h} :
                  /\ log.saved.ret = 0
                  /\ hdr > 0
                  /\ IsPgmHeader(SubSeq(log.saved.file, 1, hdr), w, h)
                  /\ \A x \in 0..(w - 1), y \in 0..(h - 1) :
                        log.saved.file[hdr + y * w + x + 1] =
                            floorf(RMul(Clamp01(log.args.canvas.pixels[y * w + x]),
                                        I2R(255)))

\* a saved canvas with a pixel strictly between 0 and 1 whose byte is
\* rounded down
C13_Witness ==
    /\ Saved /\ SaveValid
    /\ log.saved.ret = 0
    /\ \E k \in DOMAIN log.args.canvas.pixels :
          /\ RGt(log.args.canvas.pixels[k], Zero)
          /\ RLt(log.args.canvas.pixels[k], One)
          /\ RLt(I2R(log.saved.file[Len(log.saved.file)
                                    - log.args.canvas.width * log.args.canvas.height
                                    + k + 1]),
                 RMul(log.args.canvas.pixels[k], I2R(255)))

\* a saved canvas whose width is written with two digits
C13_WitnessWide == Saved /\ SaveValid /\ log.args.canvas.width >= 10 /\ log.saved.ret = 0

Created == log.op = "canvas_create"

\* the call has a reason to fail that the claim names
CreateFails ==
    \/ log.args.width <= 0 \/ log.args.height <= 0
    \/ ~log.args.structOk \/ ~log.args.pixelsOk

\* the buffer holds exactly width * height floats
HoldsAllPixels(c) ==
    /\ Cardinality(DOMAIN c.pixels) % c.width = 0
    /\ Cardinality(DOMAIN c.pixels) \div c.width = c.height

\* C14: canvas_create returns NULL, with nothing left allocated, when a
\* dimension is not positive or an allocation fails; otherwise it returns a
\* canvas of the dimensions given, all its width*height pixels 0.0 and the
\* circular clipping off (radius 0).
C14_CreateOrNothing ==
    Created =>
        IF CreateFails THEN canvas = Null /\ log.live = 0
        ELSE /\ canvas # Null
             /\ canvas.width = log.args.width /\ canvas.height = log.args.height
             /\ HoldsAllPixels(canvas)
             /\ \A k \in DOMAIN canvas.pixels : canvas.pixels[k] = Zero
             /\ canvas.active_viewport_radius = Zero

\* the same, of the calls whose width * height fits an int
C14_CreateInRange ==
    (Created /\ ~int_mul_overflows(log.args.width, log.args.height)) =>
        IF CreateFails THEN canvas = Null /\ log.live = 0
        ELSE /\ canvas # Null
             /\ canvas.width = log.args.width /\ canvas.height = log.args.height
             /\ HoldsAllPixels(canvas)
             /\ \A k \in DOMAIN canvas.pixels : canvas.pixels[k] = Zero
             /\ canvas.active_viewport_radius = Zero

Lit == log.op = "calculate_total_lighting_intensity"

\* max(0, dot(n, direction)) of light i, 0 for a light that is not directional
Contribution(i) ==
    IF log.args.lights[i].type = "LIGHT_TYPE_DIRECTIONAL"
    THEN fmaxf(Zero, RAdd(RAdd(RMul(log.args.surface_normal.x, log.args.lights[i].direction.x),
                               RMul(log.args.surface_normal.y, log.args.lights[i].direction.y)),
                          RMul(log.args.surface_normal.z, log.args.lights[i].direction.z)))
    ELSE Zero

\* the sum of the contributions of the lights i .. num_lights - 1
RECURSIVE ContributionsFrom(_)
ContributionsFrom(i) ==
    IF i >= log.args.num_lights THEN Zero
    ELSE RAdd(Contribution(i), ContributionsFrom(i + 1))

\* C15: with a light array and a positive count the total lighting
\* intensity is min(1, sum over the directional lights of max(0, dot(n,
\* direction))), so it is in [0, 1] and a light facing away adds nothing;
\* with a NULL array or a count of zero or less it is exactly 0.5.
C15_TotalLighting ==
    Lit =>
        IF log.args.lights # NullArray /\ log.args.num_lights > 0
        THEN /\ log.result = fminf(One, ContributionsFrom(0))
             /\ RLe(Zero, log.result) /\ RLe(log.result, One)
        ELSE log.result = Half

\* two lights, one facing away from the normal and one towards it
C15_Witness ==
    /\ Lit
    /\ log.args.lights # NullArray /\ log.args.num_lights = 2
    /\ \E i, j \in 0..1 :
          /\ log.args.lights[i].type = "LIGHT_TYPE_DIRECTIONAL"
          /\ log.args.lights[j].type = "LIGHT_TYPE_DIRECTIONAL"
          /\ Contribution(i) = Zero
          /\ RGt(Contribution(j), Zero)
          /\ log.result = Contribution(j)
          /\ RLt(log.result, One)

\* two lights whose contributions add up to more than 1
C15_WitnessClamped ==
    Lit /\ log.args.lights # NullArray /\ log.args.num_lights = 2
        /\ RGt(ContributionsFrom(0), One) /\ log.result = One

\* the direction of edge i of the rendered model in world space, normalized
EdgeDirection(i) ==
    CHOOSE d \in
        {vec3_normalize([x |-> RSub(w1.x, w0.x), y |-> RSub(w1.y, w0.y),
                         z |-> RSub(w1.z, w0.z)]) :
           w0 \in {mat4_transform_point(log.args.model_matrix,
                       log.args.model.vertices[log.args.model.edges[2 * i]])},
           w1 \in {mat4_transform_point(log.args.model_matrix,
                       log.args.model.vertices[log.args.model.edges[2 * i + 1]])}} : TRUE

\* what the Lighting component gives for edge i and the lights of the call
LightingOf(i) ==
    calculate_total_lighting_intensity(EdgeDirection(i), log.args.lights,
                                       log.args.num_lights)

HasLights == log.args.lights # NullArray /\ log.args.num_lights > 0

\* C16 (as stated): every edge is drawn at the intensity the Lighting
\* component computes for its normalized world-space direction and the
\* lights of the call, which for an empty or NULL light list is 0.5.
C16_LightingIntensity ==
    Rendered =>
        \A k \in 1..Len(log.draws) :
            log.draws[k].line_intensity = LightingOf(log.draws[k].original_edge_index)

\* C16 (amended): with a light array and a positive count every edge is
\* drawn at the intensity the Lighting component computes for its normalized
\* world-space direction; with a NULL array or a count of zero or less the
\* Lighting component is not asked and every edge is drawn at 1.0.
C16_LightingOrFull ==
    Rendered =>
        \A k \in 1..Len(log.draws) :
            log.draws[k].line_intensity =
                IF HasLights THEN LightingOf(log.draws[k].original_edge_index) ELSE One

\* an edge drawn under lights at an intensity strictly between 0 and 1
C16_Witness ==
    /\ Rendered /\ HasLights
    /\ \E k \in 1..Len(log.draws) :
          /\ RGt(log.draws[k].line_intensity, Zero)
          /\ RLt(log.draws[k].line_intensity, One)
          /\ log.draws[k].line_intensity = LightingOf(log.draws[k].original_edge_index)

\* an edge drawn without lights
C16_WitnessUnlit ==
    /\ Rendered /\ ~HasLights
    /\ \E k \in 1..Len(log.draws) : log.draws[k].line_intensity = One

\* the edges of the rendered model with an index that is no vertex of it
BadEdges == (0..(log.args.model.num_edges - 1)) \ InRangeEdges

\* the number of valid edges before edge i
RankOf(i) == Cardinality({j \in InRangeEdges : j < i})

\* the rendered model with its bad edges taken out of the edge array
WithoutBadEdges ==
    [log.args.model EXCEPT
        !.edges = [q \in 0..(2 * Cardinality(InRangeEdges) - 1) |->
                      log.args.model.edges[
                          (2 * (CHOOSE i \in InRangeEdges : RankOf(i) = q \div 2)) + (q % 2)]]
                  @@ << >>,
        !.num_edges = Cardinality(InRangeEdges)]

\* a list of edges or draws, with the indices the edges have in WithoutBadEdges
Renumbered(list) ==
    [k \in 1..Len(list) |-> [list[k] EXCEPT !.original_edge_index = RankOf(@)]]

HasNullArgument ==
    \/ log.args.canvas = Null \/ log.args.model = Null
    \/ log.args.model_matrix = NullArray \/ log.args.view_matrix = NullArray
    \/ log.args.projection_matrix = NullArray
    \/ log.args.model.vertices = NullArray \/ log.args.model.edges = NullArray

\* C17: an edge with an index outside [0, num_vertices) is not drawn and no
\* vertex or projected vertex is read at an index out of range, and the other
\* edges are filtered, sorted and drawn as they are for the model without
\* the bad edges; with a NULL canvas, model, vertex array, edge array or
\* matrix there is no draw call and the canvas is left as it was.
C17_MalformedInput ==
    /\ Rendered =>
          /\ \A i \in BadEdges :
                /\ PositionsOf(log.unsorted, i) = {}
                /\ PositionsOf(log.edges_to_render, i) = {}
                /\ PositionsOf(log.draws, i) = {}
          /\ collect_edges_reads(log.args.model, 0)
                \subseteq 0..(log.args.model.num_vertices - 1)
          /\ draw_loop_reads(log.edges_to_render, log.args.model, log.args.lights,
                             log.args.num_lights)
                \subseteq 0..(log.args.model.num_vertices - 1)
          /\ Renumbered(log.unsorted)
                = collect_edges(WithoutBadEdges, log.projected_vertices, 0)
          /\ Renumbered(log.edges_to_render) \in qsort_results(Renumbered(log.unsorted))
          /\ Renumbered(log.draws)
                = draw_calls(Renumbered(log.edges_to_render), WithoutBadEdges,
                             log.args.model_matrix, log.args.lights, log.args.num_lights,
                             log.args.line_thickness)
    /\ (log.op = "render_wireframe" /\ HasNullArgument) =>
          /\ log.returned = "invalid"
          /\ log.draws = << >>
          /\ log.samples = << >>
          /\ canvas = log.before

\* a rendered model with a bad edge, and an edge after it that is drawn
C17_Witness ==
    /\ Rendered
    /\ \E i \in BadEdges :
          \E k \in 1..Len(log.draws) :
              /\ log.draws[k].original_edge_index > i
              /\ log.accessed # {}

\* a call on the canvas with a NULL model, array or matrix
C17_WitnessNull ==
    /\ log.op = "render_wireframe"
    /\ HasNullArgument
    /\ log.args.canvas # Null
    /\ log.args.canvas.pixels # NullArray

\* half of min(canvas width, canvas height)
DefaultRadius(c) == RDiv(I2R(IF c.width < c.height THEN c.width ELSE c.height), Two)

\* the pixels of the canvas farther than the default radius from its centre
OutsideDefaultViewport ==
    {px \in (0..(log.before.width - 1)) \X (0..(log.before.height - 1)) :
        ~canvas_is_pixel_in_circular_viewport(
            [log.before EXCEPT !.active_viewport_radius = DefaultRadius(log.before)],
            px[1], px[2])}

\* C18 (as stated): render_wireframe with viewport_radius = 0 clips to the
\* circle of radius min(width, height) / 2 about the canvas centre: no pixel
\* farther than that from the centre is changed by the call.
C18_DefaultViewport ==
    (Rendered /\ log.args.viewport_radius_param = Zero) =>
        \A px \in OutsideDefaultViewport :
            canvas.pixels[px[2] * canvas.width + px[1]]
                = log.before.pixels[px[2] * canvas.width + px[1]]

\* what the code does: after a call with radius 0 the canvas has no active
\* viewport, and every pixel a brush reached inside the buffer was drawn to
C18_ZeroRadiusDisablesClipping ==
    (Rendered /\ log.args.viewport_radius_param = Zero) =>
        /\ canvas.active_viewport_radius = Zero
        /\ \A px \in (0..(canvas.width - 1)) \X (0..(canvas.height - 1)) :
              canvas_is_pixel_in_circular_viewport(canvas, px[1], px[2])

Multiplied == log.op = "mat4_multiply"

\* the entry of a matrix in row r and column c
Entry(m, r, c) == m[c * 4 + r]

\* C19: mat4_multiply(a, b) is the product a.b in column-major storage; to
\* transform a point by it is to transform by b and then by a (a, b affine);
\* the identity is neutral on both sides; and the product of the translation
\* and the scale depends on the order.
C19_MatrixProduct ==
    Multiplied =>
        /\ \A r \in 0..3, c \in 0..3 :
              Entry(log.result, r, c)
                = RAdd(RAdd(RAdd(RMul(Entry(log.args.a, r, 0), Entry(log.args.b, 0, c)),
                                 RMul(Entry(log.args.a, r, 1), Entry(log.args.b, 1, c))),
                            RMul(Entry(log.args.a, r, 2), Entry(log.args.b, 2, c))),
                       RMul(Entry(log.args.a, r, 3), Entry(log.args.b, 3, c)))
        /\ \A p \in Points :
              mat4_transform_point(log.result, p)
                = mat4_transform_point(log.args.a, mat4_transform_point(log.args.b, p))
        /\ log.args.a = mat4_identity => log.result = log.args.b
        /\ log.args.b = mat4_identity => log.result = log.args.a
        /\ (log.args.a = TranslationMatrix /\ log.args.b = ScaleMatrix)
              => log.result # mat4_multiply(log.args.b, log.args.a)

\* the translation times the scale: a product that moves some point to
\* another place than the product in the other order does
C19_Witness ==
    /\ Multiplied
    /\ log.args.a = TranslationMatrix
    /\ log.args.b = ScaleMatrix
    /\ \E p \in Points :
          mat4_transform_point(log.result, p)
            # mat4_transform_point(mat4_multiply(log.args.b, log.args.a), p)

\* a product of two matrices neither of which is diagonal or the identity
C19_WitnessGeneral ==
    /\ Multiplied
    /\ log.args.a = AffineShear
    /\ log.args.b \notin {mat4_identity, AffineShear}
    /\ log.result # log.args.b

Transformed == log.op = "mat4_transform_point"

\* row r of the homogeneous image of (p, 1) under the matrix of the call
ImageRow(r) ==
    RAdd(RAdd(RAdd(RMul(Entry(log.args.mat, r, 0), log.args.p.x),
                   RMul(Entry(log.args.mat, r, 1), log.args.p.y)),
              RMul(Entry(log.args.mat, r, 2), log.args.p.z)),
         Entry(log.args.mat, r, 3))

Undivided == [x |-> ImageRow(0), y |-> ImageRow(1), z |-> ImageRow(2)]

Divided ==
    [x |-> RDiv(ImageRow(0), ImageRow(3)), y |-> RDiv(ImageRow(1), ImageRow(3)),
     z |-> RDiv(ImageRow(2), ImageRow(3))]

\* |q| <= epsilon
WithinEpsilon(q) == RLe(RNeg(FLT_EPSILON), q) /\ RLe(q, FLT_EPSILON)

HasAffineBottomRow ==
    /\ Entry(log.args.mat, 3, 0) = Zero /\ Entry(log.args.mat, 3, 1) = Zero
    /\ Entry(log.args.mat, 3, 2) = Zero /\ Entry(log.args.mat, 3, 3) = One

C20_WitnessDivided ==
    /\ Transformed
    /\ RSub(ImageRow(3), One) = RMul(Two, FLT_EPSILON)
    /\ log.result = Divided
    /\ Divided # Undivided

\* a projective image with w next to 0, but not 0: it is returned undivided
C20_WitnessNearZero ==
    /\ Transformed
    /\ ImageRow(3) # Zero
    /\ WithinEpsilon(ImageRow(3))
    /\ log.result = Undivided
    /\ log.result.x # Zero

ProjectedThroughFrustum == log.op = "project_vertex" /\ "frustum" \in DOMAIN log.args

\* the camera-space position of the projected vertex
CameraPos == camera_position(log.args.local_vertex, log.args.model_matrix, ViewMatrix)

\* C21: the bottom row of the matrix of mat4_frustum_asymmetric is
\* (0, 0, -1, 0), the clip w of a point is minus its camera-space z, and
\* project_vertex classifies a vertex as BehindEye exactly when its
\* camera-space z is greater than -epsilon.
C21_FrustumBehindEye ==
    ProjectedThroughFrustum =>
        /\ Entry(log.args.projection_matrix, 3, 0) = Zero
        /\ Entry(log.args.projection_matrix, 3, 1) = Zero
        /\ Entry(log.args.projection_matrix, 3, 2) = RNeg(One)
        /\ Entry(log.args.projection_matrix, 3, 3) = Zero
        /\ clip_position(CameraPos, log.args.projection_matrix).w = RNeg(CameraPos.z)
        /\ log.pv.is_clipped = BehindEye <=> RGt(CameraPos.z, RNeg(FLT_EPSILON))
        /\ RLt(CameraPos.z, RNeg(FLT_EPSILON)) => log.pv.is_clipped # BehindEye

\* a vertex in front of the eye by less than epsilon, through a frustum off
\* the axis: BehindEye
C21_Witness ==
    /\ ProjectedThroughFrustum
    /\ log.args.frustum.l # RNeg(log.args.frustum.r)
    /\ RLt(CameraPos.z, Zero)
    /\ RGt(CameraPos.z, RNeg(FLT_EPSILON))
    /\ log.pv.is_clipped = BehindEye

\* a vertex in front of the eye by epsilon exactly: not BehindEye
C21_WitnessAtEpsilon ==
    /\ ProjectedThroughFrustum
    /\ CameraPos.z = RNeg(FLT_EPSILON)
    /\ log.pv.is_clipped # BehindEye

PerspectiveBuilt == log.op = "mat4_perspective"

\* tan(fovY / 2) of the call
TanHalfFovy == tanf(RDiv(log.args.fovy_rad, Two))

\* C22: mat4_perspective(fovY, aspect, n, f) is
\* mat4_frustum_asymmetric(-r, r, -t, t, n, f) with t = n tan(fovY/2) and
\* r = t aspect; its (0,0) element is 1 / (aspect tan(fovY/2)), its (1,1)
\* element 1 / tan(fovY/2); for pi/2, 4/3, 0.1, 10 they are 0.75 and 1.
C22_Perspective ==
    PerspectiveBuilt =>
        /\ log.result
             = mat4_frustum_asymmetric(
                   RNeg(RMul(RMul(log.args.n, TanHalfFovy), log.args.aspect)),
                   RMul(RMul(log.args.n, TanHalfFovy), log.args.aspect),
                   RNeg(RMul(log.args.n, TanHalfFovy)),
                   RMul(log.args.n, TanHalfFovy), log.args.n, log.args.f)
        /\ Entry(log.result, 0, 0) = RDiv(One, RMul(log.args.aspect, TanHalfFovy))
        /\ Entry(log.result, 1, 1) = RDiv(One, TanHalfFovy)
        /\ (/\ log.args.fovy_rad = Half /\ log.args.aspect = Q(4, 3)
            /\ log.args.n = Q(1, 10) /\ log.args.f = Q(10, 1))
              => /\ Entry(log.result, 0, 0) = Q(3, 4)
                 /\ Entry(log.result, 1, 1) = One

\* the perspective matrix of the pipeline test
C22_Witness ==
    /\ PerspectiveBuilt
    /\ log.args.fovy_rad = Half /\ log.args.aspect = Q(4, 3)
    /\ log.args.n = Q(1, 10) /\ log.args.f = Q(10, 1)
    /\ Entry(log.result, 0, 0) = Q(3, 4)

\* the calls whose result is a vec3_t
MadeVector ==
    log.op \in {"vec3_create_cartesian", "vec3_normalize", "mat4_transform_point.res",
                "render_wireframe.edge_dir_world", "project_vertex.position_screen"}

\* r, theta, phi of v are those of its x, y, z
SphericalAgrees(v) == v = vec3_update_spherical_from_cartesian(v)

\* C23 (as stated): every vec3_t the library makes or changes has spherical
\* fields that agree with its Cartesian fields, and r = theta = phi = 0 if
\* its length is zero.
C23_SphericalAgrees ==
    MadeVector =>
        /\ SphericalAgrees(log.result)
        /\ (log.result.x = Zero /\ log.result.y = Zero /\ log.result.z = Zero)
              => (log.result.r = Zero /\ log.result.theta = ThetaZero
                  /\ log.result.phi = PhiZero)

\* what holds: the vectors of the factories, of vec3_normalize on them and
\* of mat4_transform_point agree, and so does a position_screen that is not
\* behind the eye
C23_SettersAgree ==
    (\/ log.op \in {"vec3_create_cartesian", "vec3_normalize", "mat4_transform_point.res"}
     \/ (log.op = "project_vertex.position_screen" /\ log.pv.is_clipped # BehindEye))
        => SphericalAgrees(log.result)

Normalized == log.op = "vec3_normalize"

\* the length of the vector vec3_normalize was called on
LengthBefore == vec3_length(log.args.v.x, log.args.v.y, log.args.v.z)

ZeroVector ==
    [x |-> Zero, y |-> Zero, z |-> Zero, r |-> Zero, theta |-> ThetaZero, phi |-> PhiZero]

\* C24: vec3_normalize of a vector of length >= epsilon has length 1 and
\* r = 1, and of a shorter vector has all six fields 0; to normalize the
\* result again leaves it unchanged.
C24_NormalizeIdempotent ==
    Normalized =>
        /\ RLe(FLT_EPSILON, LengthBefore)
              => /\ log.result.r = One
                 /\ vec3_length(log.result.x, log.result.y, log.result.z) = One
        /\ RLt(LengthBefore, FLT_EPSILON) => log.result = ZeroVector
        /\ vec3_normalize(log.result) = log.result

\* a vector that is not zero and shorter than epsilon: all fields zeroed
C24_Witness ==
    /\ Normalized
    /\ LengthBefore # Zero
    /\ RLt(LengthBefore, FLT_EPSILON)
    /\ log.result = ZeroVector

\* a vector that is not of unit length, normalized to unit length
C24_WitnessUnit ==
    /\ Normalized
    /\ RGt(LengthBefore, One)
    /\ log.result.r = One
    /\ log.result.x # log.args.v.x

\* a vector of length epsilon exactly: it is normalized, not zeroed
C24_WitnessEpsilon ==
    /\ Normalized
    /\ LengthBefore = FLT_EPSILON
    /\ log.result.r = One

Slerped == log.op = "vec3_slerp"

\* C25: vec3_slerp(a, a, t) returns a, all six fields, for every unit
\* vector a and every t, inside [0, 1] or not.
C25_SlerpSame ==
    (/\ Slerped
     /\ log.args.v_a = log.args.v_b
     /\ vec3_length(log.args.v_a.x, log.args.v_a.y, log.args.v_a.z) = One)
        => log.result = log.args.v_a

\* slerp of a unit vector with itself at a t above 1; the vector's theta
\* and phi are not those of its x, y, z, and are returned as they are
C25_Witness ==
    /\ Slerped
    /\ log.args.v_a = log.args.v_b
    /\ RGt(log.args.t, One)
    /\ ~SphericalAgrees(log.args.v_a)
    /\ log.result = log.args.v_a

\* slerp half way between two different unit vectors: a third one
C25_WitnessBetween ==
    /\ Slerped
    /\ log.args.t = Half
    /\ log.result # log.args.v_a
    /\ log.result # log.args.v_b
    /\ log.result.r = One

(***************************************************************************)
(* Properties of the loader.                                               *)
(***************************************************************************)
Loaded ==
    /\ log.op = "obj_load_from_string"
    /\ log.args.obj_data_string # Null
    /\ log.args.allocations

TextLines == log.args.obj_data_string.lines

IsVertexRecord(line) == line.kind = "v" /\ Len(line.scalars) >= 3
IsFaceRecord(line) == line.kind = "f"

\* the number of vertex records above line p
VerticesAbove(p) == Cardinality({q \in 1..(p - 1) : IsVertexRecord(TextLines[q])})

\* the integers of a face record that are read
IndicesRead(line) ==
    [k \in 1..(IF Len(SelectSeq(line.tokens, HasInteger)) < MaxFaceVerts
               THEN Len(SelectSeq(line.tokens, HasInteger)) ELSE MaxFaceVerts)
        |-> SelectSeq(line.tokens, HasInteger)[k].value]

\* the k-th pair around the polygon i, one-based as in the text
PairAt(i, k) == <<i[k], i[(k % Len(i)) + 1]>>

PairInRange(pair, count) ==
    /\ 1 <= pair[1] /\ pair[1] <= count
    /\ 1 <= pair[2] /\ pair[2] <= count

\* the edges a face record at line p stands for, all of them
PairsOf(p) ==
    IF IsFaceRecord(TextLines[p]) /\ Len(IndicesRead(TextLines[p])) >= 3
    THEN [k \in 1..Len(IndicesRead(TextLines[p])) |-> PairAt(IndicesRead(TextLines[p]), k)]
    ELSE << >>

\* the zero-based edges of line p whose two ends are vertices read above it
EdgesKept(p) ==
    SeqConcat([k \in 1..Len(PairsOf(p)) |->
                  IF PairInRange(PairsOf(p)[k], VerticesAbove(p))
                  THEN <<PairsOf(p)[k][1] - 1, PairsOf(p)[k][2] - 1>> ELSE << >>])

PairsDropped(p) ==
    Cardinality({k \in 1..Len(PairsOf(p)) : ~PairInRange(PairsOf(p)[k], VerticesAbove(p))})

RECURSIVE SumOver(_, _)
SumOver(f, n) == IF n = 0 THEN 0 ELSE f[n] + SumOver(f, n - 1)

ExpectedEdges == SeqConcat([p \in 1..Len(TextLines) |-> EdgesKept(p)])
ExpectedDiagnostics == SumOver([p \in 1..Len(TextLines) |-> PairsDropped(p)], Len(TextLines))
ExpectedVertices ==
    [k \in 1..Len(SelectSeq(TextLines, IsVertexRecord)) |->
        vec3_create_cartesian(SelectSeq(TextLines, IsVertexRecord)[k].scalars[1],
                              SelectSeq(TextLines, IsVertexRecord)[k].scalars[2],
                              SelectSeq(TextLines, IsVertexRecord)[k].scalars[3])]

Malformed(p) ==
    /\ IsFaceRecord(TextLines[p])
    /\ \E k \in 1..Len(TextLines[p].tokens) : ~HasInteger(TextLines[p].tokens[k])

OutOfRange(p) ==
    \E k \in 1..Len(PairsOf(p)) : ~PairInRange(PairsOf(p)[k], VerticesAbove(p))

\* the edges of the text when a malformed or out-of-range record is skipped
\* whole
EdgesOfRecords ==
    SeqConcat([p \in 1..Len(TextLines) |->
                  IF Malformed(p) \/ OutOfRange(p) THEN << >>
                  ELSE SeqConcat([k \in 1..Len(PairsOf(p)) |->
                                     <<PairsOf(p)[k][1] - 1, PairsOf(p)[k][2] - 1>>])])

C26_WitnessClosed ==
    /\ Loaded
    /\ log.result.model # Null
    /\ log.result.stderr = 0
    /\ log.result.model.num_edges = 4
    /\ log.result.model.edges = Arr(<<0, 2, 2, 3, 3, 1, 1, 0>>)

\* a face of 33 indices: 32 are read
C26_WitnessLong ==
    /\ Loaded
    /\ log.result.model # Null
    /\ log.result.model.num_edges = MaxFaceVerts
    /\ \E p \in 1..Len(TextLines) : Len(TextLines[p].tokens) > MaxFaceVerts

ModelReturned ==
    /\ log.op \in {"obj_load_from_string", "generate_soccer_ball"}
    /\ log.result.model # Null

\* the invariant of a model
ModelInvariant(model) ==
    /\ model.num_vertices > 0
    /\ DOMAIN model.vertices = 0..(model.num_vertices - 1)
    /\ model.num_edges >= 0
    /\ \A i \in 0..(2 * model.num_edges - 1) :
          /\ i \in DOMAIN model.edges
          /\ 0 <= model.edges[i]
          /\ model.edges[i] < model.num_vertices

\* C27: every model obj_load_from_string or generate_soccer_ball returns
\* has num_vertices > 0 and both indices of each of its num_edges edges in
\* [0, num_vertices), whatever the order of the records and whatever the
\* indices of the faces.
C27_ModelInvariant == ModelReturned => ModelInvariant(log.result.model)

\* a text with a face above the vertices and faces with the indices 0, -1
\* or 9 is loaded: some pairs are reported, some are edges of the model
C27_Witness ==
    /\ Loaded
    /\ log.result.model # Null
    /\ IsFaceRecord(TextLines[1])
    /\ \E p \in 2..Len(TextLines) :
          /\ IsFaceRecord(TextLines[p])
          /\ \E k \in 1..Len(TextLines[p].tokens) : TextLines[p].tokens[k].value \in {0, -1, 9}
    /\ log.result.stderr > 3
    /\ log.result.model.num_edges > 0

\* the soccer ball: 60 vertices, 180 edges, no diagnostic
C27_WitnessBall ==
    /\ log.op = "generate_soccer_ball"
    /\ log.result.model # Null
    /\ log.result.model.num_vertices = 60
    /\ log.result.model.num_edges = 180
    /\ log.result.stderr = 0

\* the cube in its place
C27_WitnessCube ==
    /\ log.op = "generate_soccer_ball"
    /\ log.result.model = CubeModel

(***************************************************************************)
(* Properties of bezier_cubic.                                             *)
(***************************************************************************)
OnCurve == log.op = "bezier_cubic"

Position(v) == <<v.x, v.y, v.z>>

\* the point between a and b at t, by coordinates
Between(a, b, t) ==
    <<RAdd(a[1], RMul(t, RSub(b[1], a[1]))),
      RAdd(a[2], RMul(t, RSub(b[2], a[2]))),
      RAdd(a[3], RMul(t, RSub(b[3], a[3])))>>

\* the point of the cubic at t by de Casteljau's repeated interpolation
DeCasteljau(p0, p1, p2, p3, t) ==
    Between(Between(Between(p0, p1, t), Between(p1, p2, t), t),
            Between(Between(p1, p2, t), Between(p2, p3, t), t), t)

\* C28: bezier_cubic clamps t to [0, 1] and evaluates the cubic
\* (1-t)^3 p0 + 3(1-t)^2 t p1 + 3(1-t) t^2 p2 + t^3 p3: p0 for every t <= 0,
\* p3 for every t >= 1, and the common point, for every t, when the four
\* control points are equal.
C28_BezierCubic ==
    OnCurve =>
        /\ Position(log.result) =
              DeCasteljau(Position(log.args.p0), Position(log.args.p1),
                          Position(log.args.p2), Position(log.args.p3), Clamp01(log.args.t))
        /\ RLe(log.args.t, Zero) => Position(log.result) = Position(log.args.p0)
        /\ RLe(One, log.args.t) => Position(log.result) = Position(log.args.p3)
        /\ (log.args.p0 = log.args.p1 /\ log.args.p1 = log.args.p2 /\ log.args.p2 = log.args.p3)
              => Position(log.result) = Position(log.args.p0)

\* four different control points and a t below 0: the curve is at p0
C28_Witness ==
    /\ OnCurve
    /\ Cardinality({log.args.p0, log.args.p1, log.args.p2, log.args.p3}) = 4
    /\ RLt(log.args.t, Zero)
    /\ Position(log.result) = Position(log.args.p0)

\* inside (0, 1) the curve is at none of its ends
C28_WitnessInside ==
    /\ OnCurve
    /\ log.args.t = Q(1, 4)
    /\ Position(log.result) # Position(log.args.p0)
    /\ Position(log.result) # Position(log.args.p3)

\* four equal control points and a t inside (0, 1)
C28_WitnessEqual ==
    /\ OnCurve
    /\ Cardinality({log.args.p0, log.args.p1, log.args.p2, log.args.p3}) = 1
    /\ log.args.t = Half
    /\ Position(log.result) = Position(log.args.p0)
    /\ log.args.p0 # V(Zero, Zero, Zero)

(***************************************************************************)
(* Properties of the viewport radius.                                      *)
(***************************************************************************)
RenderCalled == log.op = "render_wireframe"

\* render_wireframe returns before it touches the canvas
ReturnsEarly ==
    \/ HasNullArgument
    \/ log.args.model.num_vertices = 0
    \/ log.args.model.num_edges = 0

\* the pixel lies outside the circle of radius r > 0 around the centre of c
OutsideCircle(c, r, px, py) ==
    /\ RGt(r, Zero)
    /\ RGt(I2R((2 * px - c.width) * (2 * px - c.width)
               + (2 * py - c.height) * (2 * py - c.height)),
           RMul(I2R(4), RMul(r, r)))

C29_WitnessNoMemory ==
    /\ RenderCalled
    /\ canvas # Null
    /\ log.returned = "nomem"
    /\ canvas.active_viewport_radius # log.before.active_viewport_radius

\* a render_wireframe of a model without edges after the radius was set
C29_WitnessEarly ==
    /\ RenderCalled
    /\ canvas # Null
    /\ nops = 2
    /\ log.args.model # Null
    /\ log.args.model.num_edges = 0
    /\ log.args.viewport_radius_param # canvas.active_viewport_radius
    /\ canvas = log.before

\* canvas_clear of a canvas with a radius
C29_WitnessClear ==
    /\ log.op = "canvas_clear"
    /\ canvas # Null
    /\ RGt(canvas.active_viewport_radius, Zero)
    /\ canvas.pixels # log.before.pixels

(***************************************************************************)
(* Properties of the order of splats.                                      *)
(***************************************************************************)
PixelsInUnitRange(c) == \A idx \in DOMAIN c.pixels : In01(c.pixels[idx])

\* no pixel of c is below what it is in b
NotDarker(c, b) == \A idx \in DOMAIN b.pixels : RLe(b.pixels[idx], c.pixels[idx])

\* the arguments of a second set_pixel_f call
SecondSplats == PixelXs \X PixelYs \X PixelIntensities

\* the orders a list of n draw calls can be made in
Orders(n) == {f \in [1..n -> 1..n] : \A i, j \in 1..n : f[i] = f[j] => i = j}

InOrder(draws, f) == [k \in 1..Len(draws) |-> draws[f[k]]]

\* the canvas render_wireframe starts to draw on
ViewportSet == canvas_set_circular_viewport(log.before, log.args.viewport_radius_param)

\* C30: on a canvas with pixels in [0, 1] and a fixed radius, two
\* set_pixel_f calls give the same buffer in either order, no set_pixel_f
\* or draw_line_f call lowers a pixel, and the image render_wireframe leaves
\* is the same for every order of its edges and nowhere darker than before.
C30_SplatsCommute ==
    (canvas # Null /\ log.before # Null /\ PixelsInUnitRange(log.before)) =>
        /\ log.op = "set_pixel_f" =>
              /\ NotDarker(canvas, log.before)
              /\ \A second \in SecondSplats :
                    set_pixel_f(canvas, second[1], second[2], second[3])
                        = set_pixel_f(set_pixel_f(log.before, second[1], second[2], second[3]),
                                      log.args.x, log.args.y, log.args.intensity)
        /\ log.op = "draw_line_f" => NotDarker(canvas, log.before)
        /\ Rendered =>
              /\ NotDarker(canvas, log.before)
              /\ \A f \in Orders(Len(log.draws)) :
                    draw_all(ViewportSet, InOrder(log.draws, f), 1) = canvas

\* a set_pixel_f that saturates a pixel, and a second one over the same
\* cells that changes the buffer again, the same way in either order
C30_Witness ==
    /\ canvas # Null
    /\ log.op = "set_pixel_f"
    /\ PixelsInUnitRange(log.before)
    /\ \E idx \in DOMAIN canvas.pixels :
          canvas.pixels[idx] = One /\ RLt(log.before.pixels[idx], One)
    /\ \E second \in SecondSplats :
          /\ <<second[1], second[2]>> = <<log.args.x, log.args.y>>
          /\ second[3] # log.args.intensity
          /\ set_pixel_f(canvas, second[1], second[2], second[3]) # canvas
          /\ set_pixel_f(canvas, second[1], second[2], second[3])
                = set_pixel_f(set_pixel_f(log.before, second[1], second[2], second[3]),
                              log.args.x, log.args.y, log.args.intensity)

\* a render_wireframe of three lines or more of different intensities that
\* leaves the image every other order of the lines leaves
C30_WitnessRender ==
    /\ Rendered
    /\ Len(log.draws) >= 3
    /\ \E i, j \in 1..Len(log.draws) :
          log.draws[i].line_intensity # log.draws[j].line_intensity
    /\ canvas.pixels # log.before.pixels
    /\ \A f \in Orders(Len(log.draws)) :
          draw_all(ViewportSet, InOrder(log.draws, f), 1) = canvas

====
